---- MODULE Spec2Model ----
(***************************************************************************)
(* Model of HybridPlanningAlgorithm (src/planning_algorithm.py): the group *)
(* quality scorer, the slot group builder, the legacy planner, the weekly  *)
(* fill, the global optimizer and the trainer assignment.                  *)
(*                                                                         *)
(* Conventions.                                                            *)
(*  - Scores are integers in units of 1/60 point (10.0 points = 600), so   *)
(*    that every configured value, the 0.5 partial credit, the 0.1 epsilon *)
(*    and the partial legacy formula are exact.                            *)
(*  - self.spelers is a sequence of records; a player's identifier is its  *)
(*    position in that sequence.  The keys 'ID' and 'SpelerID' of a player *)
(*    row, 'Baan' and 'BaanNaam' of a court row and 'spelers' and          *)
(*    'speler_ids' of a match all denote the one identifier, court name    *)
(*    and member list of the data model.                                   *)
(*  - A day is its index 1..7 in Maandag..Zondag, a time interval a pair   *)
(*    <<start hour, end hour>>, an absent level is 0, an absent age is -1, *)
(*    an absent location argument is "".                                   *)
(*  - Names are tokens that are already normalised; a wish is the name of  *)
(*    the wished partner, and a name no player carries is dangling.        *)
(*  - The operators of the model read the tunables from the definitions    *)
(*    below, which carry the built-in values; every run is a run of an     *)
(*    engine whose configuration is the built-in one.                      *)
(***************************************************************************)
EXTENDS Integers, Sequences, FiniteSets, TLC

VARIABLES spelers, banen, legacy_groepen, trainers_beschikbaarheid,
          planning, ingeplande_spelers_per_week, niet_ingeplande_spelers,
          pc, lus, probe, config_document, config

vars == <<spelers, banen, legacy_groepen, trainers_beschikbaarheid,
          planning, ingeplande_spelers_per_week, niet_ingeplande_spelers,
          pc, lus, probe, config_document, config>>

\* what a run reads and never assigns: the tables, the configuration document
\* and the configuration loaded from it at construction
invoer == <<spelers, banen, legacy_groepen, trainers_beschikbaarheid, config_document, config>>

engine == <<spelers, banen, legacy_groepen, trainers_beschikbaarheid,
            planning, ingeplande_spelers_per_week, niet_ingeplande_spelers,
            pc, lus, config_document, config>>

(***************************************************************************)
(* Bounds of the model.                                                    *)
(***************************************************************************)
MaxNiveau == 6
\* a level is a float in the source; the model counts levels in steps of
\* 1/NiveauStappen, so that 5.5 is 11 when NiveauStappen = 2
NiveauStappen == 2

(***************************************************************************)
(* Built-in configuration (_laad_configuratie), scores in 1/60 point.      *)
(***************************************************************************)
groepsgrootte == 4
max_niveau_verschil == 1
locatie_strikt == TRUE
niveau_mix_verplicht == TRUE
min_legacy_blijvers == 2
volledige_legacy_score == 600
basis_3_van_4 == 540
basis_2_van_4 == 480
resterende_punten_3_van_4 == 60
resterende_punten_2_van_4 == 120
niveau_max_punten == 180
zelfde_niveau == 180
twee_plus_twee_mix == 90
samen_met_max_punten == 240
drie_plus_paren == 240
twee_paren == 180
een_paar == 120
geslacht_max_punten == 120
homogeen_4m == 120
homogeen_4v == 120
perfect_2m_2v == 90
drie_een == 30
leeftijd_max_punten == 60
zelfde_categorie == 60
twee_aangrenzend == 30
dame_niveau_bonus == 1
enkelzijdig_punten == 30
neutrale_bonus == 120
score_plafond == 600
leeftijdsgroepen == [jong |-> <<18, 30>>, middel |-> <<30, 50>>, senior |-> <<50, 70>>]

(***************************************************************************)
(* Helpers.                                                                *)
(***************************************************************************)
Range(s) == {s[i] : i \in DOMAIN s}
Min2(a, b) == IF a <= b THEN a ELSE b
SetMax(S) == CHOOSE x \in S : \A y \in S : y <= x
SetMin(S) == CHOOSE x \in S : \A y \in S : x <= y
Permutaties(n) == {f \in [1..n -> 1..n] : \A i, j \in 1..n : i # j => f[i] # f[j]}
\* a function on 1..n as the tuple of its values
Reeks(f) == SubSeq(f, 1, Len(f))
Herschik(g, f) == Reeks([i \in DOMAIN g |-> g[f[i]]])

RECURSIVE Som(_, _)
Som(f, S) == IF S = {} THEN 0
             ELSE LET x == CHOOSE y \in S : TRUE IN f[x] + Som(f, S \ {x})

(***************************************************************************)
(* Compatibility scorer.  A group is a sequence of player identifiers.     *)
(***************************************************************************)
_get_gecorrigeerd_niveau(p) ==
    IF spelers[p].Niveau = 0 THEN 0
    ELSE IF spelers[p].Geslacht = "V" THEN spelers[p].Niveau + dame_niveau_bonus * NiveauStappen
    ELSE spelers[p].Niveau

\* indices of the members with a valid (non-zero) corrected level
geldige_niveaus(groep) == {i \in DOMAIN groep : _get_gecorrigeerd_niveau(groep[i]) > 0}

niveau_waarden(groep) == {_get_gecorrigeerd_niveau(groep[i]) : i \in geldige_niveaus(groep)}

niveau_count(groep, n) ==
    Cardinality({i \in geldige_niveaus(groep) : _get_gecorrigeerd_niveau(groep[i]) = n})

\* the hard filters without the level-mix check
harde_filters_zonder_mix(groep, locatie) ==
    /\ Len(groep) = groepsgrootte
    /\ (locatie_strikt /\ locatie # "") =>
          \A i \in DOMAIN groep : spelers[groep[i]].LocatieVoorkeur = locatie
    /\ Cardinality(geldige_niveaus(groep)) > 1 =>
          SetMax(niveau_waarden(groep)) - SetMin(niveau_waarden(groep))
              <= max_niveau_verschil * NiveauStappen

_voldoet_aan_harde_filters(groep, locatie) ==
    /\ Len(groep) = groepsgrootte
    /\ (locatie_strikt /\ locatie # "") =>
          \A i \in DOMAIN groep : spelers[groep[i]].LocatieVoorkeur = locatie
    /\ Cardinality(geldige_niveaus(groep)) > 1 =>
          SetMax(niveau_waarden(groep)) - SetMin(niveau_waarden(groep))
              <= max_niveau_verschil * NiveauStappen
    /\ (niveau_mix_verplicht /\ Cardinality(niveau_waarden(groep)) > 1) =>
          \A n \in niveau_waarden(groep) : niveau_count(groep, n) = 2

aantal_blijvend(groep) == Cardinality({i \in DOMAIN groep : spelers[groep[i]].Blijft})

_bepaal_legacy_status(groep) ==
    [is_legacy |-> aantal_blijvend(groep) >= min_legacy_blijvers,
     aantal_blijvend |-> aantal_blijvend(groep),
     totaal_origineel |-> 4,
     groep |-> groep]

\* the level criterion with the 2+2 test done on positions: the first two
\* members share a level and the last two share another
niveau_score_op_volgorde(groep) ==
    IF geldige_niveaus(groep) = {} THEN 0
    ELSE IF Cardinality(niveau_waarden(groep)) = 1 THEN zelfde_niveau
    ELSE IF /\ Len(groep) = 4
            /\ _get_gecorrigeerd_niveau(groep[1]) = _get_gecorrigeerd_niveau(groep[2])
            /\ _get_gecorrigeerd_niveau(groep[3]) = _get_gecorrigeerd_niveau(groep[4])
         THEN twee_plus_twee_mix
    ELSE 0

_bereken_niveau_score(groep) ==
    IF geldige_niveaus(groep) = {} THEN 0
    ELSE IF Cardinality(niveau_waarden(groep)) = 1 THEN zelfde_niveau
    ELSE IF /\ Cardinality(niveau_waarden(groep)) = 2
            /\ \A n \in niveau_waarden(groep) : niveau_count(groep, n) = 2
         THEN twee_plus_twee_mix
    ELSE 0

\* speler_naam_naar_id: the last player carrying the name, 0 when dangling
speler_naam_naar_id(naam) ==
    LET dragers == {p \in DOMAIN spelers : spelers[p].Naam = naam}
    IN IF dragers = {} THEN 0 ELSE SetMax(dragers)

\* samen_met_voorkeuren holds a player only when the wish list is not empty
heeft_voorkeuren(p) == spelers[p].SamenMet # {}

wederzijdse_paren(groep) ==
    {{groep[i], speler_naam_naar_id(w)} :
        <<i, w>> \in {<<i, w>> \in (DOMAIN groep) \X (UNION {spelers[q].SamenMet : q \in Range(groep)}) :
            /\ w \in spelers[groep[i]].SamenMet
            /\ speler_naam_naar_id(w) # 0
            /\ speler_naam_naar_id(w) \in Range(groep)
            /\ spelers[groep[i]].Naam \in spelers[speler_naam_naar_id(w)].SamenMet}}

\* the one-sided wishes of the members counted also when the player wished
\* for is outside the group
enkelzijdige_voorkeuren_ook_buiten_groep(groep) ==
    {<<groep[i], speler_naam_naar_id(w)>> :
        <<i, w>> \in {<<i, w>> \in (DOMAIN groep) \X (UNION {spelers[q].SamenMet : q \in Range(groep)}) :
            /\ w \in spelers[groep[i]].SamenMet
            /\ speler_naam_naar_id(w) # 0
            /\ spelers[groep[i]].Naam \notin spelers[speler_naam_naar_id(w)].SamenMet}}

enkelzijdige_voorkeuren(groep) ==
    {<<groep[i], speler_naam_naar_id(w)>> :
        <<i, w>> \in {<<i, w>> \in (DOMAIN groep) \X (UNION {spelers[q].SamenMet : q \in Range(groep)}) :
            /\ w \in spelers[groep[i]].SamenMet
            /\ speler_naam_naar_id(w) # 0
            /\ speler_naam_naar_id(w) \in Range(groep)
            /\ spelers[groep[i]].Naam \notin spelers[speler_naam_naar_id(w)].SamenMet}}

_bereken_samen_met_score(groep) ==
    LET n_wederzijds == Cardinality(wederzijdse_paren(groep))
        basis == IF n_wederzijds >= 3 THEN drie_plus_paren
                 ELSE IF n_wederzijds = 2 THEN twee_paren
                 ELSE IF n_wederzijds = 1 THEN een_paar
                 ELSE 0
        bonus == enkelzijdig_punten * Cardinality(enkelzijdige_voorkeuren(groep))
    IN IF basis = 0 /\ bonus = 0 THEN neutrale_bonus
       ELSE Min2(basis + bonus, samen_met_max_punten)

_bereken_geslacht_score(groep) ==
    LET mannen == Cardinality({i \in DOMAIN groep : spelers[groep[i]].Geslacht = "M"})
        vrouwen == Len(groep) - mannen
    IN IF mannen = 4 THEN homogeen_4m
       ELSE IF vrouwen = 4 THEN homogeen_4v
       ELSE IF mannen = 2 /\ vrouwen = 2 THEN perfect_2m_2v
       ELSE IF mannen = 3 \/ vrouwen = 3 THEN drie_een
       ELSE 0

leeftijdscategorie(l) ==
    IF leeftijdsgroepen.jong[1] <= l /\ l < leeftijdsgroepen.jong[2] THEN "jong"
    ELSE IF leeftijdsgroepen.middel[1] <= l /\ l < leeftijdsgroepen.middel[2] THEN "middel"
    ELSE IF leeftijdsgroepen.senior[1] <= l /\ l <= leeftijdsgroepen.senior[2] THEN "senior"
    ELSE "overig"

_bereken_leeftijd_score(groep) ==
    LET bekend == {i \in DOMAIN groep : spelers[groep[i]].Leeftijd # -1}
        groepen == {leeftijdscategorie(spelers[groep[i]].Leeftijd) : i \in bekend}
    IN IF Cardinality(bekend) < 4 THEN 0
       ELSE IF Cardinality(groepen) = 1 THEN zelfde_categorie
       ELSE IF Cardinality(groepen) = 2 THEN twee_aangrenzend
       ELSE 0

\* the legacy score with four stayers scored by the formula of three stayers
legacy_score_zonder_volledig(legacy_info) ==
    IF legacy_info.aantal_blijvend >= 3
    THEN Min2(basis_3_van_4
              + ((_bereken_niveau_score(legacy_info.groep) + _bereken_geslacht_score(legacy_info.groep)
                  + _bereken_leeftijd_score(legacy_info.groep)) * resterende_punten_3_van_4)
                \div (niveau_max_punten + geslacht_max_punten + leeftijd_max_punten),
              score_plafond)
    ELSE IF legacy_info.aantal_blijvend = 2
    THEN Min2(basis_2_van_4
              + ((_bereken_niveau_score(legacy_info.groep) + _bereken_geslacht_score(legacy_info.groep)
                  + _bereken_leeftijd_score(legacy_info.groep)) * resterende_punten_2_van_4)
                \div (niveau_max_punten + geslacht_max_punten + leeftijd_max_punten),
              score_plafond)
    ELSE 0

\* the legacy score of a partly retained group without the share of the points
\* the group earned on level, gender and age
legacy_score_alleen_basis(legacy_info) ==
    IF legacy_info.aantal_blijvend = 4 THEN volledige_legacy_score
    ELSE IF legacy_info.aantal_blijvend = 3 THEN basis_3_van_4
    ELSE IF legacy_info.aantal_blijvend = 2 THEN basis_2_van_4
    ELSE 0

_bereken_legacy_score(legacy_info) ==
    LET groep == legacy_info.groep
        behaalde_punten == _bereken_niveau_score(groep) + _bereken_geslacht_score(groep)
                           + _bereken_leeftijd_score(groep)
        maximaal_haalbare_punten == niveau_max_punten + geslacht_max_punten + leeftijd_max_punten
        deel(basis_score, resterende_punten) ==
            IF groep = <<>> THEN basis_score
            ELSE IF maximaal_haalbare_punten > 0
                 THEN Min2(basis_score + (behaalde_punten * resterende_punten) \div maximaal_haalbare_punten,
                           score_plafond)
            ELSE Min2(basis_score, score_plafond)
    IN IF legacy_info.aantal_blijvend = 4 THEN volledige_legacy_score
       ELSE IF legacy_info.aantal_blijvend = 3 THEN deel(basis_3_van_4, resterende_punten_3_van_4)
       ELSE IF legacy_info.aantal_blijvend = 2 THEN deel(basis_2_van_4, resterende_punten_2_van_4)
       ELSE 0

\* the sum of the four criteria with neither the cap of the SamenMet criterion
\* nor the final min(., 10.0)
nieuwe_groep_score_zonder_plafond(groep) ==
    _bereken_niveau_score(groep)
    + (IF wederzijdse_paren(groep) = {} /\ enkelzijdige_voorkeuren(groep) = {} THEN neutrale_bonus
       ELSE (IF Cardinality(wederzijdse_paren(groep)) >= 3 THEN drie_plus_paren
             ELSE IF Cardinality(wederzijdse_paren(groep)) = 2 THEN twee_paren
             ELSE IF Cardinality(wederzijdse_paren(groep)) = 1 THEN een_paar
             ELSE 0)
            + enkelzijdig_punten * Cardinality(enkelzijdige_voorkeuren(groep)))
    + _bereken_geslacht_score(groep) + _bereken_leeftijd_score(groep)

\* the sum of the four criteria cut off at 9.0 instead of 10.0
nieuwe_groep_score_lager_plafond(groep) ==
    Min2(_bereken_niveau_score(groep) + _bereken_samen_met_score(groep)
         + _bereken_geslacht_score(groep) + _bereken_leeftijd_score(groep),
         score_plafond - 60)

_bereken_nieuwe_groep_score(groep) ==
    Min2(_bereken_niveau_score(groep) + _bereken_samen_met_score(groep)
         + _bereken_geslacht_score(groep) + _bereken_leeftijd_score(groep),
         score_plafond)

\* the scorer without the hard filters
score_zonder_harde_filters(groep, locatie) ==
    IF Len(groep) # groepsgrootte THEN 0
    ELSE IF _bepaal_legacy_status(groep).is_legacy
         THEN _bereken_legacy_score(_bepaal_legacy_status(groep))
    ELSE _bereken_nieuwe_groep_score(groep)

calculate_group_quality_score(groep, locatie) ==
    IF Len(groep) # groepsgrootte THEN 0
    ELSE IF ~_voldoet_aan_harde_filters(groep, locatie) THEN 0
    ELSE IF _bepaal_legacy_status(groep).is_legacy
         THEN _bereken_legacy_score(_bepaal_legacy_status(groep))
    ELSE _bereken_nieuwe_groep_score(groep)

(***************************************************************************)
(* Slot group builder.  A list of players is a sequence of identifiers.    *)
(***************************************************************************)
spelers_per_groep == 4
opt_max_niveau_verschil == 1
max_kandidaten_per_homogene_groep == 12

\* increasing sequence of the elements of a finite set of integers
RECURSIVE IndexReeks(_)
IndexReeks(S) == IF S = {} THEN <<>>
                 ELSE <<SetMin(S)>> \o IndexReeks(S \ {SetMin(S)})

\* sorted(): the indices of S ascending by sleutel, equal keys in index order
RECURSIVE sorteer_stabiel(_, _)
sorteer_stabiel(S, sleutel) ==
    IF S = {} THEN <<>>
    ELSE LET i == CHOOSE a \in S : \A b \in S :
                      sleutel[a] < sleutel[b] \/ (sleutel[a] = sleutel[b] /\ a <= b)
         IN <<i>> \o sorteer_stabiel(S \ {i}, sleutel)

\* sorted(lijst, key=lambda x: float(x['Niveau']) if x['Niveau'] else 0)
sorteer_op_niveau(lijst) ==
    LET volgorde == sorteer_stabiel(DOMAIN lijst, [i \in DOMAIN lijst |-> spelers[lijst[i]].Niveau])
    IN Reeks([k \in DOMAIN lijst |-> lijst[volgorde[k]]])

zonder(lijst, S) == SelectSeq(lijst, LAMBDA p : p \notin S)

leden(groepen) == UNION {Range(groepen[k]) : k \in DOMAIN groepen}

\* the first combination, in the order of itertools.combinations, of a set of index sets
eerste_combinatie(C) ==
    CHOOSE c \in C : \A d \in C \ {c} : SetMin((c \ d) \cup (d \ c)) \in c

\* the players of a sorted list at the positions of a combination
homogene_groep_van(spelers_sorted, c) ==
    SelectSeq(spelers_sorted, LAMBDA p : \E i \in c : spelers_sorted[i] = p)

\* the quick level pre-check and the score of one combination
homogene_score_van(spelers_sorted, c, niveaus, locatie) ==
    IF niveaus # {} /\ SetMax(niveaus) - SetMin(niveaus) <= opt_max_niveau_verschil * NiveauStappen
    THEN calculate_group_quality_score(homogene_groep_van(spelers_sorted, c), locatie)
    ELSE 0

\* the pairs <<combination, score>> with score > 0 of the first max_kandidaten players
homogene_scores(spelers_sorted, max_kandidaten, locatie) ==
    {t \in {<<c, homogene_score_van(spelers_sorted, c,
                     {spelers[spelers_sorted[i]].Niveau : i \in c} \ {0}, locatie)>> :
               c \in {d \in SUBSET (1..max_kandidaten) : Cardinality(d) = spelers_per_groep}} :
        t[2] > 0}

\* the first combination that scores above 0, whatever the others score
homogene_eerste_geldige(spelers_sorted, scores, beste_score) ==
    homogene_groep_van(spelers_sorted, eerste_combinatie({t[1] : t \in scores}))

\* the best-scoring combination, the first one found on ties
homogene_beste(spelers_sorted, scores, beste_score) ==
    homogene_groep_van(spelers_sorted,
                       eerste_combinatie({t[1] : t \in {u \in scores : u[2] = beste_score}}))

RECURSIVE homogene_lus(_, _, _, _), homogene_kies(_, _, _, _, _), homogene_neem(_, _, _, _, _)
homogene_lus(spelers_sorted, groepen, max_groepen, locatie) ==
    IF ~(Len(spelers_sorted) >= spelers_per_groep /\ Len(groepen) < max_groepen) THEN groepen
    ELSE homogene_kies(spelers_sorted, groepen, max_groepen, locatie,
             homogene_scores(spelers_sorted,
                             Min2(config.optimalisatie_instellingen.max_kandidaten_per_homogene_groep,
                                  Len(spelers_sorted)), locatie))

homogene_kies(spelers_sorted, groepen, max_groepen, locatie, scores) ==
    IF scores = {} THEN groepen
    ELSE homogene_neem(spelers_sorted, groepen, max_groepen, locatie,
             homogene_beste(spelers_sorted, scores, SetMax({t[2] : t \in scores})))

homogene_neem(spelers_sorted, groepen, max_groepen, locatie, beste_groep) ==
    homogene_lus(zonder(spelers_sorted, Range(beste_groep)), Append(groepen, beste_groep),
                 max_groepen, locatie)

create_optimized_homogene_groups(lijst, max_groepen, locatie) ==
    IF Len(lijst) < spelers_per_groep \/ max_groepen = 0 THEN <<>>
    ELSE homogene_lus(sorteer_op_niveau(lijst), <<>>, max_groepen, locatie)

\* the while loop of _maak_gemengde_groepen for one (man_niveau, vrouw_niveau)
RECURSIVE gemengde_paren(_, _, _, _, _)
gemengde_paren(beschikbare_mannen, beschikbare_vrouwen, groepen, max_groepen, locatie) ==
    IF /\ Len(beschikbare_mannen) >= 2
       /\ Len(beschikbare_vrouwen) >= 2
       /\ Len(groepen) < max_groepen
       /\ calculate_group_quality_score(
              SubSeq(beschikbare_mannen, 1, 2) \o SubSeq(beschikbare_vrouwen, 1, 2), locatie) > 0
    THEN gemengde_paren(SubSeq(beschikbare_mannen, 3, Len(beschikbare_mannen)),
                        SubSeq(beschikbare_vrouwen, 3, Len(beschikbare_vrouwen)),
                        Append(groepen, SubSeq(beschikbare_mannen, 1, 2) \o SubSeq(beschikbare_vrouwen, 1, 2)),
                        max_groepen, locatie)
    ELSE [mannen |-> beschikbare_mannen, vrouwen |-> beschikbare_vrouwen, groepen |-> groepen]

\* the state of the inner loop after the pairs of one man_niveau were made
gemengde_stap_klaar(t, man_niveau, r) ==
    [mpn |-> [t.mpn EXCEPT ![man_niveau] = r.mannen], vrouwen |-> r.vrouwen, groepen |-> r.groepen]

\* one man_niveau of the inner for loop; t = [mpn, vrouwen, groepen]
gemengde_stap(t, man_niveau, max_groepen, locatie) ==
    IF Len(t.groepen) >= max_groepen \/ man_niveau \notin DOMAIN t.mpn THEN t
    ELSE IF Len(t.mpn[man_niveau]) < 2 THEN t
    ELSE gemengde_stap_klaar(t, man_niveau,
             gemengde_paren(t.mpn[man_niveau], t.vrouwen, t.groepen, max_groepen, locatie))

\* the loop over the sorted women's levels; toestand = [mannen_per_niveau, groepen]
RECURSIVE gemengde_lus(_, _, _, _, _), gemengde_verder(_, _, _, _, _)
gemengde_lus(vrouw_niveaus, toestand, vrouwen_per_niveau, max_groepen, locatie) ==
    IF vrouw_niveaus = <<>> \/ Len(toestand.groepen) >= max_groepen THEN toestand.groepen
    ELSE IF Len(vrouwen_per_niveau[Head(vrouw_niveaus)]) < 2
         THEN gemengde_lus(Tail(vrouw_niveaus), toestand, vrouwen_per_niveau, max_groepen, locatie)
    ELSE gemengde_verder(vrouw_niveaus, vrouwen_per_niveau, max_groepen, locatie,
             \* target_man_niveaus = [vrouw_niveau + bonus, vrouw_niveau]
             gemengde_stap(
                 gemengde_stap([mpn |-> toestand.mannen_per_niveau,
                                vrouwen |-> vrouwen_per_niveau[Head(vrouw_niveaus)],
                                groepen |-> toestand.groepen],
                               Head(vrouw_niveaus) + dame_niveau_bonus * NiveauStappen,
                               max_groepen, locatie),
                 Head(vrouw_niveaus), max_groepen, locatie))

gemengde_verder(vrouw_niveaus, vrouwen_per_niveau, max_groepen, locatie, na) ==
    gemengde_lus(Tail(vrouw_niveaus), [mannen_per_niveau |-> na.mpn, groepen |-> na.groepen],
                 vrouwen_per_niveau, max_groepen, locatie)

per_niveau(lijst) ==
    [n \in {spelers[p].Niveau : p \in Range(lijst)} \ {0} |->
        SelectSeq(lijst, LAMBDA p : spelers[p].Niveau = n)]

_maak_gemengde_groepen(mannen, vrouwen, max_groepen, locatie) ==
    IF Len(mannen) < 2 \/ Len(vrouwen) < 2 \/ max_groepen = 0 THEN <<>>
    ELSE gemengde_lus(IndexReeks(DOMAIN per_niveau(vrouwen)),
                      [mannen_per_niveau |-> per_niveau(mannen), groepen |-> <<>>],
                      per_niveau(vrouwen), max_groepen, locatie)

\* the final filter on score > 0, the sort by score descending and the cut
optimize_gesorteerd(alle_groepen, max_groepen, volgorde) ==
    Reeks([k \in 1..Min2(max_groepen, Len(volgorde)) |-> alle_groepen[volgorde[k]]])

\* the final filter and the cut without the sort: the groups stay in the order
\* in which they were built
optimize_met_score_ongesorteerd(alle_groepen, max_groepen, score) ==
    optimize_gesorteerd(alle_groepen, max_groepen,
        IndexReeks({k \in DOMAIN alle_groepen : score[k] > 0}))

optimize_met_score(alle_groepen, max_groepen, score) ==
    optimize_gesorteerd(alle_groepen, max_groepen,
        sorteer_stabiel({k \in DOMAIN alle_groepen : score[k] > 0},
                        [k \in DOMAIN alle_groepen |-> 0 - score[k]]))

\* mixed groups from the players the homogeneous groups left over
optimize_met_gemengd(homogeen, max_groepen, locatie, gemengd) ==
    optimize_met_score(homogeen \o gemengd, max_groepen,
        Reeks([k \in DOMAIN (homogeen \o gemengd) |->
                  calculate_group_quality_score((homogeen \o gemengd)[k], locatie)]))

optimize_met_homogeen(mannen, vrouwen, homogeen, max_groepen, locatie) ==
    optimize_met_gemengd(homogeen, max_groepen, locatie,
        _maak_gemengde_groepen(zonder(mannen, leden(homogeen)), zonder(vrouwen, leden(homogeen)),
                               max_groepen - Len(homogeen), locatie))

\* women's groups with the budget the men's groups left over
optimize_met_mannen(mannen, vrouwen, groepen_m, max_groepen, locatie) ==
    optimize_met_homogeen(mannen, vrouwen,
        groepen_m \o create_optimized_homogene_groups(zonder(vrouwen, leden(groepen_m)),
                                                      max_groepen - Len(groepen_m), locatie),
        max_groepen, locatie)

\* men's groups with half of the budget
optimize_gesplitst(mannen, vrouwen, max_groepen, locatie) ==
    optimize_met_mannen(mannen, vrouwen,
        create_optimized_homogene_groups(mannen, max_groepen \div 2, locatie),
        max_groepen, locatie)

optimize_groups_in_slot(lijst, max_groepen, locatie) ==
    IF Len(lijst) < 4 THEN <<>>
    ELSE optimize_gesplitst(
             sorteer_op_niveau(SelectSeq(lijst, LAMBDA p : spelers[p].Geslacht = "M")),
             sorteer_op_niveau(SelectSeq(lijst, LAMBDA p : spelers[p].Geslacht = "V")),
             max_groepen, locatie)

(***************************************************************************)
(* Availability, courts and the plan.  A match (Assignment) is a record    *)
(* [week, day, time, location, baan, spelers, trainer, quality_score,      *)
(*  legacy, type]; trainer "" is None.                                     *)
(***************************************************************************)
tijden_overlappen(slot1, slot2) == ~(slot1[2] <= slot2[1] \/ slot2[2] <= slot1[1])

heeft_tijd(p, dag, tijdslot) ==
    \E t \in spelers[p].Beschikbaar[dag] : tijden_overlappen(tijdslot, t)

\* availability test of the weekly fill
is_speler_beschikbaar(p, dag, tijdslot, week_nummer) == heeft_tijd(p, dag, tijdslot)

\* score stored on a match of the weekly fill
bereken_groep_score(groep) == calculate_group_quality_score(groep, "")

_zijn_alle_spelers_beschikbaar(lijst, dag, tijdslot, locatie) ==
    \A i \in DOMAIN lijst :
        /\ heeft_tijd(lijst[i], dag, tijdslot)
        /\ (spelers[lijst[i]].LocatieVoorkeur = locatie \/ heeft_voorkeuren(lijst[i]))

sleutel(m) == <<m.week, m.day, m.location, m.time, m.baan>>

_is_baan_beschikbaar(plan, week, dag, locatie, tijdslot, baan_naam) ==
    ~\E i \in DOMAIN plan : sleutel(plan[i]) = <<week, dag, locatie, tijdslot, baan_naam>>

_vind_beschikbare_baan(plan, week_nummer, dag, locatie, tijdslot) ==
    LET vrij == {b \in DOMAIN banen :
                    /\ banen[b].Dag = dag /\ banen[b].Locatie = locatie
                    /\ banen[b].Tijdslot = tijdslot
                    /\ _is_baan_beschikbaar(plan, week_nummer, dag, locatie, tijdslot, banen[b].BaanNaam)}
    IN IF vrij = {} THEN "" ELSE banen[SetMin(vrij)].BaanNaam

_haal_spelers_uit_match(m) == IndexReeks(Range(m.spelers))

\* position of the first match of the plan with the key of m, 0 when there is none
eerste_met_sleutel(plan, m) ==
    LET S == {i \in DOMAIN plan : sleutel(plan[i]) = sleutel(m)}
    IN IF S = {} THEN 0 ELSE SetMin(S)

(***************************************************************************)
(* Legacy continuity planner.                                              *)
(***************************************************************************)
_vind_speler_by_naam(naam) ==
    LET dragers == {p \in DOMAIN spelers : spelers[p].Naam = naam}
    IN IF dragers = {} THEN 0 ELSE SetMin(dragers)

\* scores are multiplied by NiveauStappen and by the number of known levels of
\* the group, so that the comparison with the mean level stays in the integers
_vind_best_passende_speler(beschikbare_spelers, bestaande_groep) ==
    LET bekend == {i \in DOMAIN bestaande_groep : spelers[bestaande_groep[i]].Niveau # 0}
        n == IF bekend = {} THEN 1 ELSE Cardinality(bekend)
        som == IF bekend = {} THEN 6 * NiveauStappen
               ELSE Som([i \in bekend |-> spelers[bestaande_groep[i]].Niveau], bekend)
        mannen_count == Cardinality({i \in DOMAIN bestaande_groep :
                                        spelers[bestaande_groep[i]].Geslacht = "M"})
        vrouwen_count == Len(bestaande_groep) - mannen_count
        abs(x) == IF x < 0 THEN 0 - x ELSE x
        niveau_score(k) == IF spelers[k].Niveau = 0 THEN 0
                           ELSE IF 3 * NiveauStappen * n - abs(spelers[k].Niveau * n - som) > 0
                                THEN 3 * NiveauStappen * n - abs(spelers[k].Niveau * n - som)
                           ELSE 0
        is_man(k) == spelers[k].Geslacht = "M"
        gender_score(k) ==
            IF Len(bestaande_groep) + 1 # 4 THEN 0
            ELSE IF (is_man(k) /\ mannen_count < 2) \/ (~is_man(k) /\ vrouwen_count < 2) THEN 2
            ELSE IF (is_man(k) /\ mannen_count = 2) \/ (~is_man(k) /\ vrouwen_count = 2) THEN 1
            ELSE 0
        totaal == Reeks([i \in DOMAIN beschikbare_spelers |->
                      niveau_score(beschikbare_spelers[i])
                      + NiveauStappen * n * gender_score(beschikbare_spelers[i])])
    IN IF beschikbare_spelers = <<>> \/ bestaande_groep = <<>> THEN 0
       ELSE beschikbare_spelers[SetMin({i \in DOMAIN totaal : \A j \in DOMAIN totaal : totaal[j] <= totaal[i]})]

\* the loop over the historical names: members flagged to stay and not yet scheduled
RECURSIVE legacy_blijvers(_, _, _)
legacy_blijvers(speler_namen, groep_spelers, ingeplande_ids) ==
    IF speler_namen = <<>> THEN [groep |-> groep_spelers, ingepland |-> ingeplande_ids]
    ELSE LET speler == _vind_speler_by_naam(Head(speler_namen))
         IN IF speler # 0 /\ spelers[speler].Blijft /\ speler \notin ingeplande_ids
            THEN legacy_blijvers(Tail(speler_namen), Append(groep_spelers, speler),
                                 ingeplande_ids \cup {speler})
            ELSE legacy_blijvers(Tail(speler_namen), groep_spelers, ingeplande_ids)

\* the top-up loop
RECURSIVE legacy_aanvullen(_, _, _, _), legacy_aanvullen_met(_, _, _, _, _)
legacy_aanvullen(groep_spelers, slot_candidates, ingeplande_ids, target_size) ==
    IF Len(groep_spelers) < target_size /\ slot_candidates # <<>>
    THEN legacy_aanvullen_met(groep_spelers, slot_candidates, ingeplande_ids, target_size,
                              _vind_best_passende_speler(slot_candidates, groep_spelers))
    ELSE [groep |-> groep_spelers, ingepland |-> ingeplande_ids]

\* one iteration of the top-up loop that appends the candidate and leaves it
\* among the candidates and out of the scheduled identifiers
legacy_aanvullen_zonder_verwijderen(groep_spelers, slot_candidates, ingeplande_ids, target_size, beste_kandidaat) ==
    IF beste_kandidaat = 0
    THEN [groep |-> groep_spelers, ingepland |-> ingeplande_ids]
    ELSE legacy_aanvullen(Append(groep_spelers, beste_kandidaat), slot_candidates,
                          ingeplande_ids, target_size)

\* one iteration of the top-up loop with the candidate it chose
legacy_aanvullen_met(groep_spelers, slot_candidates, ingeplande_ids, target_size, beste_kandidaat) ==
    IF beste_kandidaat = 0
    THEN [groep |-> groep_spelers, ingepland |-> ingeplande_ids]
    ELSE legacy_aanvullen(
             IF beste_kandidaat \notin ingeplande_ids
             THEN Append(groep_spelers, beste_kandidaat) ELSE groep_spelers,
             zonder(slot_candidates, {beste_kandidaat}),
             ingeplande_ids \cup {beste_kandidaat}, target_size)

legacy_mislukt(plan, ids) == [ok |-> FALSE, planning |-> plan, ingepland |-> ids]

\* the checks on the completed group and the creation of the legacy match
legacy_inplannen(plan, week_nummer, legacy_groep, aantal_blijvers, groep_spelers, ingepland, baan_naam) ==
    IF ~_zijn_alle_spelers_beschikbaar(groep_spelers, legacy_groep.Dag, legacy_groep.Tijdslot,
                                       legacy_groep.Locatie)
    THEN legacy_mislukt(plan, ingepland)
    ELSE IF aantal_blijvers < 2 /\ ~_voldoet_aan_harde_filters(groep_spelers, legacy_groep.Locatie)
         THEN legacy_mislukt(plan, ingepland)
    ELSE IF baan_naam = "" THEN legacy_mislukt(plan, ingepland)
    ELSE IF Len(groep_spelers) # 4 THEN legacy_mislukt(plan, ingepland)
    ELSE [ok |-> TRUE,
          planning |-> Append(plan,
              [week |-> week_nummer, day |-> legacy_groep.Dag, time |-> legacy_groep.Tijdslot,
               location |-> legacy_groep.Locatie, baan |-> baan_naam,
               spelers |-> groep_spelers, trainer |-> "",
               quality_score |->
                   IF _bepaal_legacy_status(groep_spelers).aantal_blijvend
                          = _bepaal_legacy_status(groep_spelers).totaal_origineel
                   THEN volledige_legacy_score
                   ELSE _bereken_legacy_score(_bepaal_legacy_status(groep_spelers)),
               legacy |-> TRUE,
               type |-> IF _bepaal_legacy_status(groep_spelers).aantal_blijvend
                               = _bepaal_legacy_status(groep_spelers).totaal_origineel
                        THEN "legacy_volledig" ELSE "legacy_gedeeltelijk"]),
          ingepland |-> ingepland]

\* the group after the top-up, cut to the target size
legacy_na_aanvullen(plan, week_nummer, legacy_groep, aantal_blijvers, aangevuld) ==
    legacy_inplannen(plan, week_nummer, legacy_groep, aantal_blijvers,
        IF Len(aangevuld.groep) > groepsgrootte
        THEN SubSeq(aangevuld.groep, 1, groepsgrootte) ELSE aangevuld.groep,
        aangevuld.ingepland,
        _vind_beschikbare_baan(plan, week_nummer, legacy_groep.Dag, legacy_groep.Locatie,
                               legacy_groep.Tijdslot))

\* the candidates for the top-up: unscheduled players available for the historical slot
legacy_slot_candidates(legacy_groep, ingepland) ==
    SelectSeq([p \in DOMAIN spelers |-> p],
        LAMBDA p : /\ p \notin ingepland
                   /\ _zijn_alle_spelers_beschikbaar(<<p>>, legacy_groep.Dag, legacy_groep.Tijdslot,
                                                     legacy_groep.Locatie))

\* the minimum of stayers and the top-up to the target size
legacy_na_blijvers(plan, week_nummer, legacy_groep, blijvers) ==
    IF Len(blijvers.groep) < min_legacy_blijvers THEN legacy_mislukt(plan, blijvers.ingepland)
    ELSE legacy_na_aanvullen(plan, week_nummer, legacy_groep, Len(blijvers.groep),
             IF Len(blijvers.groep) < groepsgrootte
             THEN legacy_aanvullen(blijvers.groep,
                                   legacy_slot_candidates(legacy_groep, blijvers.ingepland),
                                   blijvers.ingepland, groepsgrootte)
             ELSE [groep |-> SubSeq(blijvers.groep, 1, groepsgrootte),
                   ingepland |-> blijvers.ingepland])

\* result: [ok, planning, ingepland] for one legacy record and week
_verwerk_legacy_groep(plan, ingeplande_ids, legacy_groep, week_nummer) ==
    IF legacy_groep.Spelers = <<>> THEN legacy_mislukt(plan, ingeplande_ids)
    ELSE legacy_na_blijvers(plan, week_nummer, legacy_groep,
                            legacy_blijvers(legacy_groep.Spelers, <<>>, ingeplande_ids))

_sorteer_legacy_groepen_op_overlap ==
    LET overlap_count(i) ==
            Som([j \in DOMAIN legacy_groepen \ {i} |->
                    Cardinality({k \in DOMAIN legacy_groepen[i].Spelers :
                                    legacy_groepen[i].Spelers[k] \in Range(legacy_groepen[j].Spelers)})],
                DOMAIN legacy_groepen \ {i})
        volgorde == sorteer_stabiel(DOMAIN legacy_groepen,
                                    [i \in DOMAIN legacy_groepen |-> overlap_count(i)])
    IN Reeks([k \in DOMAIN legacy_groepen |-> legacy_groepen[volgorde[k]]])

(***************************************************************************)
(* Weekly fill.                                                            *)
(***************************************************************************)
\* the (location, time) buckets of a day, in the order of their first court
slots_van_dag(dag) ==
    LET eerste == {b \in DOMAIN banen :
                      /\ banen[b].Dag = dag
                      /\ \A c \in 1..(b - 1) :
                            ~(banen[c].Dag = dag /\ banen[c].Locatie = banen[b].Locatie
                              /\ banen[c].Tijdslot = banen[b].Tijdslot)}
    IN Reeks([k \in 1..Cardinality(eerste) |->
                 <<banen[IndexReeks(eerste)[k]].Locatie, banen[IndexReeks(eerste)[k]].Tijdslot>>])

banen_lijst(dag, locatie, tijdslot) ==
    SelectSeq([b \in DOMAIN banen |-> b],
              LAMBDA b : banen[b].Dag = dag /\ banen[b].Locatie = locatie
                         /\ banen[b].Tijdslot = tijdslot)

\* the groups of one bucket, one per court in the order of banen_lijst
vind_matches_plaats(toestand, dag, week_nummer, locatie, tijdslot_str, lijst, groepen) ==
    [matches |-> toestand.matches \o
         [i \in 1..Min2(Len(groepen), Len(lijst)) |->
             [week |-> week_nummer, day |-> dag, time |-> tijdslot_str,
              location |-> locatie, baan |-> banen[lijst[i]].BaanNaam,
              spelers |-> groepen[i], trainer |-> "",
              quality_score |-> bereken_groep_score(groepen[i]),
              legacy |-> FALSE, type |-> "nieuw"]],
     ingepland |-> toestand.ingepland
                   \cup leden(SubSeq(groepen, 1, Min2(Len(groepen), Len(lijst))))]

vind_matches_groepen(locatie, beschikbare_spelers, max_groepen) ==
    IF Len(beschikbare_spelers) >= 4
    THEN optimize_groups_in_slot(beschikbare_spelers, max_groepen, locatie)
    ELSE <<>>

\* one (location, time) bucket of the day
vind_matches_bucket(toestand, dag, week_nummer, locatie, tijdslot_str, lijst) ==
    vind_matches_plaats(toestand, dag, week_nummer, locatie, tijdslot_str, lijst,
        vind_matches_groepen(locatie,
            SelectSeq([p \in DOMAIN spelers |-> p],
                LAMBDA p : /\ p \notin toestand.ingepland
                           /\ is_speler_beschikbaar(p, dag, tijdslot_str, week_nummer)
                           /\ spelers[p].LocatieVoorkeur = locatie),
            Len(lijst)))

\* the loop over the buckets of a day; toestand = [matches, ingepland]
RECURSIVE vind_matches_lus(_, _, _, _)
vind_matches_lus(slots, toestand, dag, week_nummer) ==
    IF slots = <<>> THEN toestand
    ELSE vind_matches_lus(Tail(slots),
             vind_matches_bucket(toestand, dag, week_nummer, Head(slots)[1], Head(slots)[2],
                                 banen_lijst(dag, Head(slots)[1], Head(slots)[2])),
             dag, week_nummer)

vind_matches(ingeplande_ids, dag, week_nummer) ==
    vind_matches_lus(slots_van_dag(dag), [matches |-> <<>>, ingepland |-> ingeplande_ids],
                     dag, week_nummer)

vind_niet_ingeplande_spelers(ingeplande_ids) == {p \in DOMAIN spelers : p \notin ingeplande_ids}

(***************************************************************************)
(* Global optimizer.                                                       *)
(***************************************************************************)
max_verbeter_iteraties == 10
min_score_verbetering == 6
minimale_kwaliteitsdrempel == 300
excellente_groep_drempel == 540
slechte_groep_drempel == 360
max_swaps_per_week == 10
max_hersamenstelling_groepen == 5

_bereken_score_voor_tijdslot(lijst, dag, locatie, tijdslot) ==
    Min2(calculate_group_quality_score(lijst, locatie), score_plafond)

\* the pairs <<court index, score>> of the courts of another slot that are free
\* and at which every player of the match is available
alternatieve_banen(plan, huidige_match, lijst) ==
    {<<b, _bereken_score_voor_tijdslot(lijst, banen[b].Dag, banen[b].Locatie, banen[b].Tijdslot)>> :
        b \in {c \in DOMAIN banen :
                  /\ banen[c].Dag \in 1..5
                  /\ ~(/\ banen[c].Dag = huidige_match.day
                       /\ banen[c].Locatie = huidige_match.location
                       /\ banen[c].Tijdslot = huidige_match.time)
                  /\ _zijn_alle_spelers_beschikbaar(lijst, banen[c].Dag, banen[c].Tijdslot,
                                                    banen[c].Locatie)
                  /\ _is_baan_beschikbaar(plan, huidige_match.week, banen[c].Dag,
                                          banen[c].Locatie, banen[c].Tijdslot, banen[c].BaanNaam)}}

\* the first court, in the order (day, position in banen), with the highest
\* score above the current one; <<0, 0>> when there is none
beste_alternatieve_baan(alternatieven, huidige_score) ==
    LET mogelijk == {t \in alternatieven : t[2] > huidige_score}
        beste == {t \in mogelijk : \A u \in mogelijk : u[2] <= t[2]}
    IN IF mogelijk = {} THEN <<0, 0>>
       ELSE CHOOSE t \in beste : \A u \in beste :
                banen[t[1]].Dag < banen[u[1]].Dag
                \/ (banen[t[1]].Dag = banen[u[1]].Dag /\ t[1] <= u[1])

\* <<index in banen of the best alternative court, its score>>
_vind_beste_alternatief_tijdslot(plan, huidige_match) ==
    beste_alternatieve_baan(
        alternatieve_banen(plan, huidige_match, _haal_spelers_uit_match(huidige_match)),
        huidige_match.quality_score)

_voer_groep_verplaatsing_uit(plan, oude_match, b) ==
    LET i == eerste_met_sleutel(plan, oude_match)
    IN IF i = 0 THEN plan
       ELSE [plan EXCEPT ![i] =
                [@ EXCEPT !.day = banen[b].Dag, !.location = banen[b].Locatie,
                          !.time = banen[b].Tijdslot, !.baan = banen[b].BaanNaam,
                          !.quality_score = _bereken_score_voor_tijdslot(
                              _haal_spelers_uit_match(oude_match), banen[b].Dag,
                              banen[b].Locatie, banen[b].Tijdslot)]]

verplaatsing_naar(plan, match, beste_alternatief) ==
    IF /\ beste_alternatief[1] # 0
       /\ beste_alternatief[2] > match.quality_score + min_score_verbetering
    THEN _voer_groep_verplaatsing_uit(plan, match, beste_alternatief[1])
    ELSE plan

\* the body of the loop of _voer_groep_verplaatsing_fase_uit for one match
verplaatsing_stap(plan, match) ==
    IF match.legacy THEN plan
    ELSE IF match.quality_score >= excellente_groep_drempel THEN plan
    ELSE verplaatsing_naar(plan, match, _vind_beste_alternatief_tijdslot(plan, match))

_is_speler_swap_toegestaan(speler1, speler2, match1, match2) ==
    /\ _zijn_alle_spelers_beschikbaar(<<speler1>>, match2.day, match2.time, match2.location)
    /\ _zijn_alle_spelers_beschikbaar(<<speler2>>, match1.day, match1.time, match1.location)

_voer_speler_swap_uit(plan, match1, match2, swap_info) ==
    LET i1 == eerste_met_sleutel(plan, match1)
        plan1 == IF i1 = 0 THEN plan
                 ELSE [plan EXCEPT ![i1] = [@ EXCEPT !.spelers = swap_info.groep1,
                                                     !.quality_score = swap_info.score1]]
        i2 == eerste_met_sleutel(plan1, match2)
    IN IF i2 = 0 THEN plan1
       ELSE [plan1 EXCEPT ![i2] = [@ EXCEPT !.spelers = swap_info.groep2,
                                            !.quality_score = swap_info.score2]]

\* <<i, j, nieuwe_score1, nieuwe_score2>> for every allowed exchange of
\* spelers1[i] and spelers2[j]
swap_kandidaten(match1, match2, spelers1, spelers2) ==
    {<<ij[1], ij[2],
       calculate_group_quality_score([spelers1 EXCEPT ![ij[1]] = spelers2[ij[2]]], ""),
       calculate_group_quality_score([spelers2 EXCEPT ![ij[2]] = spelers1[ij[1]]], "")>> :
        ij \in {kl \in (DOMAIN spelers1) \X (DOMAIN spelers2) :
                   _is_speler_swap_toegestaan(spelers1[kl[1]], spelers2[kl[2]], match1, match2)}}

\* the best swap, the first one found on ties; <<0, 0, 0, 0>> when none is acceptable
beste_swap(kandidaten, huidige_totaal) ==
    LET goed == {t \in kandidaten :
                    /\ t[3] + t[4] - huidige_totaal > 0
                    /\ t[3] + t[4] - huidige_totaal >= min_score_verbetering
                    /\ t[3] >= minimale_kwaliteitsdrempel
                    /\ t[4] >= minimale_kwaliteitsdrempel}
        top == {t \in goed : \A u \in goed : u[3] + u[4] <= t[3] + t[4]}
    IN IF goed = {} THEN <<0, 0, 0, 0>>
       ELSE CHOOSE t \in top : \A u \in top :
                t[1] < u[1] \/ (t[1] = u[1] /\ t[2] <= u[2])

swap_toepassen(plan, match1, match2, spelers1, spelers2, t) ==
    IF t[1] = 0 THEN [ok |-> FALSE, planning |-> plan]
    ELSE [ok |-> TRUE,
          planning |-> _voer_speler_swap_uit(plan, match1, match2,
              [groep1 |-> [spelers1 EXCEPT ![t[1]] = spelers2[t[2]]],
               groep2 |-> [spelers2 EXCEPT ![t[2]] = spelers1[t[1]]],
               score1 |-> t[3], score2 |-> t[4]])]

\* the attempt without the guard that keeps legacy matches out of swaps
probeer_swap_ook_met_legacy(plan, match1, match2) ==
    swap_toepassen(plan, match1, match2,
        _haal_spelers_uit_match(match1), _haal_spelers_uit_match(match2),
        beste_swap(swap_kandidaten(match1, match2, _haal_spelers_uit_match(match1),
                                   _haal_spelers_uit_match(match2)),
                   match1.quality_score + match2.quality_score))

\* result: [ok, planning]
_probeer_speler_swap_tussen_groepen(plan, match1, match2) ==
    IF match1.legacy \/ match2.legacy THEN [ok |-> FALSE, planning |-> plan]
    ELSE swap_toepassen(plan, match1, match2,
             _haal_spelers_uit_match(match1), _haal_spelers_uit_match(match2),
             beste_swap(swap_kandidaten(match1, match2, _haal_spelers_uit_match(match1),
                                        _haal_spelers_uit_match(match2)),
                        match1.quality_score + match2.quality_score))

\* matches_per_week: the weeks in the order of their first match, and the
\* positions in the plan of the matches of one week
weken_van(plan) ==
    LET eerste == {i \in DOMAIN plan : \A j \in 1..(i - 1) : plan[j].week # plan[i].week}
    IN Reeks([k \in 1..Cardinality(eerste) |-> plan[IndexReeks(eerste)[k]].week])

week_matches(plan, week) == IndexReeks({i \in DOMAIN plan : plan[i].week = week})

RECURSIVE alle_spelers_van(_)
alle_spelers_van(matches) ==
    IF matches = <<>> THEN <<>>
    ELSE _haal_spelers_uit_match(Head(matches)) \o alle_spelers_van(Tail(matches))

\* the replacement that puts every rebuilt group on the court of the first
\* removed match
reassembly_op_eerste_baan(plan, poor_matches, new_groups, scores) ==
    IF /\ new_groups # <<>>
       /\ Len(new_groups) >= Len(poor_matches)
       /\ Som(scores, DOMAIN scores)
              > Som([k \in DOMAIN poor_matches |-> poor_matches[k].quality_score],
                    DOMAIN poor_matches) + min_score_verbetering
    THEN [ok |-> TRUE,
          planning |-> SelectSeq(plan, LAMBDA m : m \notin Range(poor_matches)) \o
              [i \in 1..Min2(Len(new_groups), Len(poor_matches)) |->
                  [week |-> poor_matches[1].week, day |-> poor_matches[1].day,
                   time |-> poor_matches[1].time, location |-> poor_matches[1].location,
                   baan |-> poor_matches[1].baan, spelers |-> new_groups[i], trainer |-> "",
                   quality_score |-> scores[i],
                   legacy |-> FALSE, type |-> "nieuw"]]]
    ELSE [ok |-> FALSE, planning |-> plan]

\* the comparison of the new groups with the old matches and the replacement
reassembly_beslis(plan, poor_matches, new_groups, scores) ==
    IF /\ new_groups # <<>>
       /\ Len(new_groups) >= Len(poor_matches)
       /\ Som(scores, DOMAIN scores)
              > Som([k \in DOMAIN poor_matches |-> poor_matches[k].quality_score],
                    DOMAIN poor_matches) + min_score_verbetering
    THEN [ok |-> TRUE,
          planning |-> SelectSeq(plan, LAMBDA m : m \notin Range(poor_matches)) \o
              [i \in 1..Min2(Len(new_groups), Len(poor_matches)) |->
                  [week |-> poor_matches[1].week, day |-> poor_matches[i].day,
                   time |-> poor_matches[i].time, location |-> poor_matches[i].location,
                   baan |-> poor_matches[i].baan, spelers |-> new_groups[i], trainer |-> "",
                   quality_score |-> scores[i],
                   legacy |-> FALSE, type |-> "nieuw"]]]
    ELSE [ok |-> FALSE, planning |-> plan]

reassembly_met(plan, poor_matches, new_groups) ==
    reassembly_beslis(plan, poor_matches, new_groups,
        Reeks([k \in DOMAIN new_groups |-> calculate_group_quality_score(new_groups[k], "")]))

\* result: [ok, planning]
_try_group_reassembly_for_week(plan, poor_matches) ==
    IF Len(poor_matches) < 2 THEN [ok |-> FALSE, planning |-> plan]
    ELSE IF Len(alle_spelers_van(poor_matches)) < 4 THEN [ok |-> FALSE, planning |-> plan]
    ELSE reassembly_met(plan, poor_matches,
             optimize_groups_in_slot(alle_spelers_van(poor_matches), Len(poor_matches), ""))

\* the non-legacy matches of a week, sorted by score, whatever they score
slechte_matches_zonder_drempel(plan, week) ==
    LET wm == week_matches(plan, week)
        poor == SelectSeq(wm, LAMBDA i : ~plan[i].legacy)
        volgorde == sorteer_stabiel(DOMAIN poor, [k \in DOMAIN poor |-> plan[poor[k]].quality_score])
    IN Reeks([k \in 1..Min2(max_hersamenstelling_groepen, Len(poor)) |-> plan[poor[volgorde[k]]]])

\* poor_matches[:max_groepen]: the non-legacy matches of a week below the
\* threshold, sorted by score
slechte_matches(plan, week) ==
    LET wm == week_matches(plan, week)
        poor == SelectSeq(wm, LAMBDA i : plan[i].quality_score < slechte_groep_drempel
                                         /\ ~plan[i].legacy)
        volgorde == sorteer_stabiel(DOMAIN poor, [k \in DOMAIN poor |-> plan[poor[k]].quality_score])
    IN Reeks([k \in 1..Min2(max_hersamenstelling_groepen, Len(poor)) |-> plan[poor[volgorde[k]]]])

hersamenstelling_uitkomst(plan, gekozen, r) ==
    IF r.ok THEN [improvements |-> Len(gekozen), planning |-> r.planning]
    ELSE [improvements |-> 0, planning |-> plan]

\* the body of the loop of _voer_groep_hersamenstelling_uit for one week:
\* [improvements, planning]
hersamenstelling_stap(plan, week) ==
    IF Len(slechte_matches(plan, week)) < 2 THEN [improvements |-> 0, planning |-> plan]
    ELSE hersamenstelling_uitkomst(plan, slechte_matches(plan, week),
             _try_group_reassembly_for_week(plan, slechte_matches(plan, week)))

(***************************************************************************)
(* Trainer assignment.                                                     *)
(***************************************************************************)
aantal_dummy_trainers == 4
\* planning_parameters.get('aantal_dummy_trainers', 2) names, "Trainer A" on
dummy_trainers ==
    SubSeq(<<"Trainer A", "Trainer B", "Trainer C", "Trainer D", "Trainer E", "Trainer F">>, 1,
           IF "aantal_dummy_trainers" \in DOMAIN config.planning_parameters
           THEN config.planning_parameters.aantal_dummy_trainers ELSE 2)

_get_previous_timeslot(tijdslot) == <<(tijdslot[1] + 23) % 24, tijdslot[1]>>

\* the trainers listed for the day and the location of a slot at any hour
trainers_voor_slot_elk_uur(dag, locatie, tijdslot) ==
    LET echte == SelectSeq(trainers_beschikbaarheid,
                     LAMBDA r : r.Dag = dag /\ r.Locatie = locatie)
    IN Reeks([k \in DOMAIN echte |-> echte[k].TrainerNaam]) \o dummy_trainers

\* the trainers listed for a slot, in the order of all_trainer_avail
trainers_voor_slot(dag, locatie, tijdslot) ==
    LET echte == SelectSeq(trainers_beschikbaarheid,
                     LAMBDA r : r.Dag = dag /\ r.Locatie = locatie /\ r.Tijdslot = tijdslot)
    IN Reeks([k \in DOMAIN echte |-> echte[k].TrainerNaam]) \o dummy_trainers

\* the plan in the order of sort_key: (week, weekday, start hour)
trainer_volgorde(plan) ==
    sorteer_stabiel(DOMAIN plan,
        [i \in DOMAIN plan |-> plan[i].week * 10000 + plan[i].day * 100 + plan[i].time[1]])

\* kies_trainer without the look-up in the booked keys: the first real trainer
\* listed for the slot is taken whoever holds them already
kies_trainer_zonder_bezet(match, trainer_slots_bezet) ==
    trainers_voor_slot(match.day, match.location, match.time)[1]

\* kies_trainer without the bonus of a real trainer: only the bonus of the
\* trainer booked for the hour before counts
kies_trainer_zonder_echte_bonus(match, trainer_slots_bezet) ==
    LET lijst == trainers_voor_slot(match.day, match.location, match.time)
        vrij == {k \in DOMAIN lijst :
                    <<match.week, match.day, match.time, match.location, lijst[k]>>
                        \notin trainer_slots_bezet}
        score == [k \in vrij |->
                     IF <<match.week, match.day, _get_previous_timeslot(match.time),
                          match.location, lijst[k]>> \in trainer_slots_bezet
                     THEN 10 ELSE 0]
    IN IF vrij = {} THEN "GEEN_TRAINER_BESCHIKBAAR"
       ELSE lijst[SetMin({k \in vrij : \A l \in vrij : score[l] <= score[k]})]

\* kies_trainer without the bonus of the trainer booked for the hour before
kies_trainer_zonder_continuiteit(match, trainer_slots_bezet) ==
    LET lijst == trainers_voor_slot(match.day, match.location, match.time)
        vrij == {k \in DOMAIN lijst :
                    <<match.week, match.day, match.time, match.location, lijst[k]>>
                        \notin trainer_slots_bezet}
        score == [k \in vrij |-> IF lijst[k] \notin Range(dummy_trainers) THEN 100 ELSE 0]
    IN IF vrij = {} THEN "GEEN_TRAINER_BESCHIKBAAR"
       ELSE lijst[SetMin({k \in vrij : \A l \in vrij : score[l] <= score[k]})]

\* the trainer chosen for one match, given the booked (week, day, time, location, trainer) keys
kies_trainer(match, trainer_slots_bezet) ==
    LET lijst == trainers_voor_slot(match.day, match.location, match.time)
        vrij == {k \in DOMAIN lijst :
                    <<match.week, match.day, match.time, match.location, lijst[k]>>
                        \notin trainer_slots_bezet}
        score == [k \in vrij |->
                     (IF lijst[k] \notin Range(dummy_trainers) THEN 100 ELSE 0)
                     + (IF <<match.week, match.day, _get_previous_timeslot(match.time),
                             match.location, lijst[k]>> \in trainer_slots_bezet
                        THEN 10 ELSE 0)]
    IN IF vrij = {} THEN "GEEN_TRAINER_BESCHIKBAAR"
       ELSE lijst[SetMin({k \in vrij : \A l \in vrij : score[l] <= score[k]})]

(***************************************************************************)
(* Configuration.  A configuration document is absent, unreadable as JSON, *)
(* or a JSON object, which is the record of its sections.                  *)
(***************************************************************************)
\* the dictionary _laad_configuratie returns when there is no file
standaard_configuratie ==
    [mapping_waarden |-> [geslacht_man |-> <<"M", "Man", "Jongen">>,
                          geslacht_vrouw |-> <<"V", "Vrouw", "Meisje">>,
                          bevestiging_ja |-> <<"ja", "yes", "j">>],
     harde_filters |-> [groepsgrootte |-> groepsgrootte,
                        max_niveau_verschil |-> max_niveau_verschil,
                        locatie_strikt |-> locatie_strikt,
                        niveau_mix_verplicht |-> niveau_mix_verplicht],
     legacy_scoring |-> [min_legacy_blijvers |-> min_legacy_blijvers,
                         volledige_legacy_score |-> volledige_legacy_score,
                         gedeeltelijke_legacy_basis |->
                             ("3_van_4" :> basis_3_van_4 @@ "2_van_4" :> basis_2_van_4),
                         resterende_punten |->
                             ("3_van_4" :> resterende_punten_3_van_4
                              @@ "2_van_4" :> resterende_punten_2_van_4)],
     nieuwe_groep_scoring |->
         [niveau_homogeniteit |->
              [max_punten |-> niveau_max_punten,
               scores |-> ("zelfde_niveau" :> zelfde_niveau @@ "2_plus_2_mix" :> twee_plus_twee_mix)],
          samen_met_voorkeur |->
              [max_punten |-> samen_met_max_punten,
               scores |-> ("3_plus_paren" :> drie_plus_paren @@ "2_paren" :> twee_paren
                           @@ "1_paar" :> een_paar),
               wederkerigheid_verplicht |-> TRUE],
          geslachtsbalans |->
              [max_punten |-> geslacht_max_punten,
               scores |-> [homogeen_4m |-> homogeen_4m, homogeen_4v |-> homogeen_4v,
                           perfect_2m_2v |-> perfect_2m_2v, drie_een |-> drie_een]],
          leeftijdsmatch |->
              [max_punten |-> leeftijd_max_punten,
               scores |-> [zelfde_categorie |-> zelfde_categorie,
                           twee_aangrenzend |-> twee_aangrenzend]]],
     optimalisatie_instellingen |->
         [globale_optimalisatie_aan |-> TRUE,
          max_verbeter_iteraties |-> max_verbeter_iteraties,
          min_score_verbetering |-> min_score_verbetering,
          minimale_kwaliteitsdrempel |-> minimale_kwaliteitsdrempel,
          max_niveau_verschil |-> opt_max_niveau_verschil,
          max_kandidaten_per_homogene_groep |-> max_kandidaten_per_homogene_groep,
          excellente_groep_drempel |-> excellente_groep_drempel,
          slechte_groep_drempel |-> slechte_groep_drempel,
          max_swaps_per_week |-> max_swaps_per_week,
          max_hersamenstelling_groepen |-> max_hersamenstelling_groepen],
     leeftijdsgroepen |-> leeftijdsgroepen,
     gender_compensatie |-> [dame_niveau_bonus |-> dame_niveau_bonus,
                             omschrijving |-> "Dame niveau 6 = Heer niveau 7"],
     planning_parameters |-> [standaard_aantal_weken |-> 12,
                              spelers_per_groep |-> spelers_per_groep,
                              performance_cutoff_homogeen |-> 8,
                              max_combinaties_check |-> 16,
                              aantal_dummy_trainers |-> aantal_dummy_trainers]]

\* the document of a run after construction: there is no file
GeenDocument == [soort |-> "afwezig"]

\* a record without one of its fields
zonder_veld(r, veld) == [v \in DOMAIN r \ {veld} |-> r[v]]

\* no file; a file that json.load rejects; the built-in configuration written
\* out; an object that holds none of the sections; the built-in configuration
\* without its section leeftijdsgroepen; the built-in configuration whose
\* section optimalisatie_instellingen lacks max_verbeter_iteraties; the
\* built-in configuration with at most one swap per week; the built-in
\* configuration with one placeholder trainer; the built-in configuration with
\* one optimizer round of at most one swap per week
Documenten ==
    {GeenDocument,
     [soort |-> "onleesbaar"],
     [soort |-> "object", velden |-> standaard_configuratie],
     [soort |-> "object", velden |-> [versie |-> 1]],
     [soort |-> "object", velden |-> zonder_veld(standaard_configuratie, "leeftijdsgroepen")],
     [soort |-> "object",
      velden |-> [standaard_configuratie EXCEPT !.optimalisatie_instellingen =
                      zonder_veld(@, "max_verbeter_iteraties")]],
     [soort |-> "object",
      velden |-> [standaard_configuratie EXCEPT
                      !.optimalisatie_instellingen.max_swaps_per_week = 1]],
     [soort |-> "object",
      velden |-> [standaard_configuratie EXCEPT
                      !.planning_parameters.aantal_dummy_trainers = 1]],
     [soort |-> "object",
      velden |-> [standaard_configuratie EXCEPT
                      !.optimalisatie_instellingen.max_swaps_per_week = 1,
                      !.optimalisatie_instellingen.max_verbeter_iteraties = 1]]}

\* _laad_configuratie: the built-in dictionary when there is no file or
\* json.load raises, the parsed document otherwise
_laad_configuratie(document) ==
    IF document.soort = "afwezig" THEN standaard_configuratie
    ELSE IF document.soort = "onleesbaar" THEN standaard_configuratie
    ELSE document.velden

\* the keys __init__ reads from self.config and from its section
\* optimalisatie_instellingen; a missing key raises KeyError
init_leest(c) ==
    /\ {"harde_filters", "legacy_scoring", "nieuwe_groep_scoring", "optimalisatie_instellingen",
        "leeftijdsgroepen", "gender_compensatie", "planning_parameters"} \subseteq DOMAIN c
    /\ {"globale_optimalisatie_aan", "max_verbeter_iteraties", "min_score_verbetering"}
           \subseteq DOMAIN c.optimalisatie_instellingen



(***************************************************************************)
(* Inputs of a run.  Twelve players in three quads: 1..4 are the members   *)
(* of the historical group, 5..8 prefer location A, 9..12 location B.      *)
(* Every attribute is drawn from a small set of patterns.                  *)
(***************************************************************************)
AantalWeken == 2
Spelers12 == 1..12
Maandag == 1
Dinsdag == 2

BlijftPatronen == {{}, {1, 2}, {1, 2, 3, 4}, {1, 2, 5, 6}}

GeslachtPatronen ==
    {[p \in Spelers12 |-> "M"],
     [p \in Spelers12 |-> IF p % 4 \in {1, 2} THEN "M" ELSE "V"]}

\* whole levels 5..MaxNiveau; in the last but one pattern player 4 has no level
\* and player 3 the highest one, in the last one players 3, 7 and 11 sit one
\* step above level 5
NiveauPatronen ==
    {[p \in Spelers12 |-> n * NiveauStappen] : n \in 5..(MaxNiveau - 1)}
    \cup {[p \in Spelers12 |-> IF p % 4 \in {1, 2} THEN n * NiveauStappen
                                ELSE (n + 1) * NiveauStappen] : n \in 5..(MaxNiveau - 1)}
    \cup {[p \in Spelers12 |-> IF p = 4 THEN 0 ELSE IF p = 3 THEN MaxNiveau * NiveauStappen
                                ELSE 5 * NiveauStappen]}
    \cup {[p \in Spelers12 |-> IF p % 4 \in {1, 2} THEN 5 * NiveauStappen
                                ELSE IF p % 4 = 3 THEN 5 * NiveauStappen + 1
                                ELSE 6 * NiveauStappen]}

LeeftijdPatronen ==
    {[p \in Spelers12 |-> 25],
     [p \in Spelers12 |-> IF p \in {8, 10, 11, 12} THEN 40 ELSE 25]}

\* name 99 is carried by no player
SamenMetPatronen ==
    {[p \in Spelers12 |-> {}],
     [p \in Spelers12 |-> IF p \in {8, 9} THEN {99} ELSE {}]}

BeschikbaarPatronen ==
    {[p \in Spelers12 |-> [d \in 1..7 |-> IF d = Maandag THEN {<<18, 20>>} ELSE {}]],
     [p \in Spelers12 |-> [d \in 1..7 |-> IF d = Maandag /\ p # 2 THEN {<<18, 20>>}
                                          ELSE IF d = Dinsdag /\ p = 2 THEN {<<18, 19>>}
                                          ELSE {}]]}

baan(dag, locatie, tijdslot, naam) ==
    [Dag |-> dag, Locatie |-> locatie, Tijdslot |-> tijdslot, BaanNaam |-> naam]

BanenPatronen ==
    {<<baan(Maandag, "A", <<18, 19>>, "A1"), baan(Maandag, "A", <<18, 19>>, "A2"),
       baan(Maandag, "B", <<18, 19>>, "B1"), baan(Maandag, "B", <<18, 19>>, "B2")>>,
     <<baan(Maandag, "A", <<18, 19>>, "A1"), baan(Maandag, "A", <<19, 20>>, "A1"),
       baan(Maandag, "A", <<19, 20>>, "A2"), baan(Maandag, "B", <<19, 20>>, "B1"),
       baan(Maandag, "B", <<19, 20>>, "B2"), baan(Dinsdag, "A", <<18, 19>>, "A1")>>}

LegacyPatronen ==
    {<<>>,
     <<[Spelers |-> <<1, 2, 3, 4>>, Dag |-> Maandag, Locatie |-> "A", Tijdslot |-> <<18, 19>>]>>}

trainer(naam, dag, locatie, tijdslot) ==
    [TrainerNaam |-> naam, Dag |-> dag, Locatie |-> locatie, Tijdslot |-> tijdslot]

TrainerPatronen ==
    {<<>>,
     <<trainer("Jan", Maandag, "A", <<18, 19>>), trainer("Jan", Maandag, "A", <<18, 19>>),
       trainer("Piet", Maandag, "A", <<19, 20>>), trainer("Jan", Maandag, "B", <<18, 19>>)>>}

SpelerTabel(blijft, geslacht, niveau, leeftijd, samen_met, beschikbaar) ==
    [p \in Spelers12 |->
        [Naam |-> p, Geslacht |-> geslacht[p], Niveau |-> niveau[p], Leeftijd |-> leeftijd[p],
         LocatieVoorkeur |-> IF p <= 8 THEN "A" ELSE "B", Blijft |-> p \in blijft,
         SamenMet |-> samen_met[p], Beschikbaar |-> beschikbaar[p]]]

(***************************************************************************)
(* The run: maak_planning_meerdere_weken followed by the second optimizer  *)
(* and trainer pass of __main__.  lus holds the loop positions.            *)
(***************************************************************************)
LusLeeg == [week |-> 0, idx |-> 0, dag |-> 0, run |-> 0, iteratie |-> 0, verbeteringen |-> 0,
            volgorde |-> <<>>, k |-> 0, weken |-> <<>>, w |-> 0, i |-> 0, j |-> 0,
            week_swaps |-> 0, bezet |-> {}, start_totaal |-> 0]

GeenProbe == [groep |-> <<>>, locatie |-> "", score |-> 0]

totaal_score(plan) == Som([i \in DOMAIN plan |-> plan[i].quality_score], DOMAIN plan)

\* sorted(self.planning, key=quality_score): positions in the plan
verplaatsing_volgorde(plan) ==
    sorteer_stabiel(DOMAIN plan, [i \in DOMAIN plan |-> plan[i].quality_score])

begin_ronde(plan, run, iteratie) ==
    [LusLeeg EXCEPT !.run = run, !.iteratie = iteratie, !.k = 1,
                    !.volgorde = verplaatsing_volgorde(plan),
                    !.start_totaal = totaal_score(plan)]

Init ==
    /\ \E blijft \in BlijftPatronen, geslacht \in GeslachtPatronen, niveau \in NiveauPatronen,
          leeftijd \in LeeftijdPatronen, samen_met \in SamenMetPatronen,
          beschikbaar \in BeschikbaarPatronen :
          spelers = SpelerTabel(blijft, geslacht, niveau, leeftijd, samen_met, beschikbaar)
    /\ banen \in BanenPatronen
    /\ legacy_groepen \in LegacyPatronen
    /\ trainers_beschikbaarheid \in TrainerPatronen
    /\ planning = <<>>
    /\ ingeplande_spelers_per_week = [w \in 1..AantalWeken |-> {}]
    /\ niet_ingeplande_spelers = [w \in 1..AantalWeken |-> {}]
    /\ pc = IF legacy_groepen # <<>> THEN "legacy" ELSE "fill"
    /\ lus = [LusLeeg EXCEPT !.week = 1, !.idx = 1, !.dag = 1]
    /\ probe = GeenProbe
    /\ config_document = GeenDocument
    /\ config = standaard_configuratie

\* the plan and the scheduled set as _verwerk_legacy_groep left them
LegacyResultaat(r) ==
    /\ planning' = r.planning
    /\ ingeplande_spelers_per_week' =
           [ingeplande_spelers_per_week EXCEPT ![lus.week] = r.ingepland]

\* plan_legacy_groepen: one call of _verwerk_legacy_groep
VerwerkLegacyGroep ==
    /\ pc = "legacy"
    /\ LegacyResultaat(_verwerk_legacy_groep(planning, ingeplande_spelers_per_week[lus.week],
                                             _sorteer_legacy_groepen_op_overlap[lus.idx], lus.week))
    /\ IF lus.idx < Len(legacy_groepen)
       THEN pc' = pc /\ lus' = [lus EXCEPT !.idx = @ + 1]
       ELSE IF lus.week < AantalWeken
            THEN pc' = pc /\ lus' = [lus EXCEPT !.week = @ + 1, !.idx = 1]
       ELSE pc' = "fill" /\ lus' = [LusLeeg EXCEPT !.week = 1, !.dag = 1]
    /\ UNCHANGED <<invoer, niet_ingeplande_spelers, probe>>

\* maak_planning_meerdere_weken: one call of vind_matches
VindMatches ==
    /\ pc = "fill"
    /\ planning' = planning \o vind_matches(ingeplande_spelers_per_week[lus.week],
                                              lus.dag, lus.week).matches
    \* every player of a match that was placed is marked as scheduled
    /\ ingeplande_spelers_per_week' =
           [ingeplande_spelers_per_week EXCEPT ![lus.week] =
               @ \cup leden([k \in 1..(Len(planning') - Len(planning)) |->
                                planning'[Len(planning) + k].spelers])]
    /\ IF lus.dag < 7
       THEN pc' = pc /\ lus' = [lus EXCEPT !.dag = @ + 1]
       ELSE pc' = "niet_ingepland" /\ lus' = lus
    /\ UNCHANGED <<invoer, niet_ingeplande_spelers, probe>>

\* the end of a week: vind_niet_ingeplande_spelers; after the last week the
\* first round of voer_globale_optimalisatie_uit begins
VindNietIngeplandeSpelers ==
    /\ pc = "niet_ingepland"
    /\ niet_ingeplande_spelers' =
           [niet_ingeplande_spelers EXCEPT ![lus.week] =
               vind_niet_ingeplande_spelers(ingeplande_spelers_per_week[lus.week])]
    /\ IF lus.week < AantalWeken
       THEN pc' = "fill" /\ lus' = [LusLeeg EXCEPT !.week = lus.week + 1, !.dag = 1]
       ELSE pc' = "verplaatsing" /\ lus' = begin_ronde(planning, 1, 1)
    /\ UNCHANGED <<invoer, planning, ingeplande_spelers_per_week, probe>>

\* _voer_groep_verplaatsing_fase_uit: one iteration of the loop over the sorted plan
VerplaatsingStap ==
    /\ pc = "verplaatsing"
    /\ lus.k <= Len(lus.volgorde)
    /\ planning' = verplaatsing_stap(planning, planning[lus.volgorde[lus.k]])
    /\ lus' = [lus EXCEPT !.k = @ + 1,
                          !.verbeteringen = @ + (IF planning' # planning THEN 1 ELSE 0)]
    /\ pc' = pc
    /\ UNCHANGED <<invoer, ingeplande_spelers_per_week, niet_ingeplande_spelers, probe>>

\* first pair of matches of the first week, from position w of weken, with two matches
eerste_paar_vanaf(plan, weken, w) ==
    LET S == {v \in w..Len(weken) : Len(week_matches(plan, weken[v])) >= 2}
    IN IF S = {} THEN [w |-> 0, i |-> 0, j |-> 0]
       ELSE [w |-> SetMin(S), i |-> 1, j |-> 2]

\* the relocation sweep returns; _voer_speler_swapping_uit begins
VerplaatsingKlaar ==
    /\ pc = "verplaatsing"
    /\ lus.k > Len(lus.volgorde)
    /\ pc' = "swapping"
    /\ LET paar == eerste_paar_vanaf(planning, weken_van(planning), 1)
       IN lus' = [lus EXCEPT !.volgorde = <<>>, !.k = 0, !.weken = weken_van(planning),
                             !.w = paar.w, !.i = paar.i, !.j = paar.j, !.week_swaps = 0]
    /\ UNCHANGED <<invoer, planning, ingeplande_spelers_per_week, niet_ingeplande_spelers, probe>>

\* the double loop over the matches of a week without the limit on swaps
volgende_paar_zonder_limiet(wm, swaps) ==
    IF lus.j < Len(wm) THEN [w |-> lus.w, i |-> lus.i, j |-> lus.j + 1]
    ELSE IF lus.i + 1 < Len(wm) THEN [w |-> lus.w, i |-> lus.i + 1, j |-> lus.i + 2]
    ELSE eerste_paar_vanaf(planning, lus.weken, lus.w + 1)

\* the next pair (i, j) of the double loop over the matches of a week, the
\* next week when the pairs are exhausted or the week reached its swap limit
volgende_paar(wm, swaps) ==
    IF swaps >= config.optimalisatie_instellingen.max_swaps_per_week
    THEN eerste_paar_vanaf(planning, lus.weken, lus.w + 1)
    ELSE IF lus.j < Len(wm) THEN [w |-> lus.w, i |-> lus.i, j |-> lus.j + 1]
    ELSE IF lus.i + 1 < Len(wm) THEN [w |-> lus.w, i |-> lus.i + 1, j |-> lus.i + 2]
    ELSE eerste_paar_vanaf(planning, lus.weken, lus.w + 1)

\* the plan and the loop position after one attempt with result r
SwapResultaat(wm, r) ==
    LET swaps == lus.week_swaps + (IF r.ok THEN 1 ELSE 0)
        volgende == volgende_paar(wm, swaps)
    IN /\ planning' = r.planning
       /\ lus' = [lus EXCEPT !.w = volgende.w, !.i = volgende.i, !.j = volgende.j,
                             !.week_swaps = IF volgende.w = lus.w THEN swaps ELSE 0,
                             !.verbeteringen = @ + (IF r.ok THEN 1 ELSE 0)]

\* _voer_speler_swapping_uit: one call of _probeer_speler_swap_tussen_groepen
SwapStap ==
    /\ pc = "swapping"
    /\ lus.w # 0
    /\ SwapResultaat(week_matches(planning, lus.weken[lus.w]),
           _probeer_speler_swap_tussen_groepen(planning,
               planning[week_matches(planning, lus.weken[lus.w])[lus.i]],
               planning[week_matches(planning, lus.weken[lus.w])[lus.j]]))
    /\ pc' = pc
    /\ UNCHANGED <<invoer, ingeplande_spelers_per_week, niet_ingeplande_spelers, probe>>

\* the swap sweep returns; _voer_groep_hersamenstelling_uit begins
SwappingKlaar ==
    /\ pc = "swapping"
    /\ lus.w = 0
    /\ pc' = "hersamenstelling"
    /\ lus' = [lus EXCEPT !.weken = weken_van(planning), !.w = 1, !.i = 0, !.j = 0,
                          !.week_swaps = 0]
    /\ UNCHANGED <<invoer, planning, ingeplande_spelers_per_week, niet_ingeplande_spelers, probe>>

HersamenstellingResultaat(r) ==
    /\ planning' = r.planning
    /\ lus' = [lus EXCEPT !.w = @ + 1, !.verbeteringen = @ + r.improvements]

\* _voer_groep_hersamenstelling_uit: the iteration for one week
HersamenstellingStap ==
    /\ pc = "hersamenstelling"
    /\ lus.w <= Len(lus.weken)
    /\ HersamenstellingResultaat(hersamenstelling_stap(planning, lus.weken[lus.w]))
    /\ pc' = pc
    /\ UNCHANGED <<invoer, ingeplande_spelers_per_week, niet_ingeplande_spelers, probe>>

\* a round that goes on to the next one whatever it changed, up to the last round
optimalisatie_stopt_bij_laatste_ronde(verbeteringen_this_iteratie, iteratie) ==
    iteratie >= config.optimalisatie_instellingen.max_verbeter_iteraties

\* the loop of voer_globale_optimalisatie_uit ends after this round: the range
\* is exhausted or the round made no improvement
optimalisatie_stopt(verbeteringen_this_iteratie, iteratie) ==
    \/ verbeteringen_this_iteratie = 0
    \/ iteratie >= config.optimalisatie_instellingen.max_verbeter_iteraties

\* the end of a round of voer_globale_optimalisatie_uit: the next round, or
\* plan_trainers_in when the round changed nothing or was the last one
HersamenstellingKlaar ==
    /\ pc = "hersamenstelling"
    /\ lus.w > Len(lus.weken)
    /\ IF optimalisatie_stopt(lus.verbeteringen, lus.iteratie)
       THEN pc' = "trainers" /\ lus' = [LusLeeg EXCEPT !.run = lus.run, !.k = 1]
       ELSE pc' = "verplaatsing" /\ lus' = begin_ronde(planning, lus.run, lus.iteratie + 1)
    /\ UNCHANGED <<invoer, planning, ingeplande_spelers_per_week, niet_ingeplande_spelers, probe>>

\* plan_trainers_in: one iteration of the loop over the sorted plan
PlanTrainerStap ==
    /\ pc = "trainers"
    /\ lus.k <= Len(planning)
    /\ LET i == trainer_volgorde(planning)[lus.k]
           best_trainer == kies_trainer(planning[i], lus.bezet)
       IN /\ planning' = [planning EXCEPT ![i].trainer = best_trainer]
          /\ lus' = [lus EXCEPT !.k = @ + 1,
                        !.bezet = IF best_trainer = "GEEN_TRAINER_BESCHIKBAAR" THEN @
                                  ELSE @ \cup {<<planning[i].week, planning[i].day, planning[i].time,
                                                 planning[i].location, best_trainer>>}]
    /\ pc' = pc
    /\ UNCHANGED <<invoer, ingeplande_spelers_per_week, niet_ingeplande_spelers, probe>>

\* plan_trainers_in returns: __main__ runs the optimizer and the trainer
\* assignment a second time, then the run is over
TrainersKlaar ==
    /\ pc = "trainers"
    /\ lus.k > Len(planning)
    /\ IF lus.run = 1
       THEN pc' = "verplaatsing" /\ lus' = begin_ronde(planning, 2, 1)
       ELSE pc' = "klaar" /\ lus' = [LusLeeg EXCEPT !.run = 2]
    /\ UNCHANGED <<invoer, planning, ingeplande_spelers_per_week, niet_ingeplande_spelers, probe>>

Next ==
    \/ VerwerkLegacyGroep
    \/ VindMatches
    \/ VindNietIngeplandeSpelers
    \/ VerplaatsingStap
    \/ VerplaatsingKlaar
    \/ SwapStap
    \/ SwappingKlaar
    \/ HersamenstellingStap
    \/ HersamenstellingKlaar
    \/ PlanTrainerStap
    \/ TrainersKlaar

Spec == Init /\ [][Next]_vars

\* the steps of voer_globale_optimalisatie_uit
OptimalisatieStap ==
    \/ VerplaatsingStap \/ VerplaatsingKlaar
    \/ SwapStap \/ SwappingKlaar
    \/ HersamenstellingStap \/ HersamenstellingKlaar

\* The optimizer is a sequential loop, so a step of it that can be taken is
\* taken: weak fairness of OptimalisatieStap.  WF_vars(OptimalisatieStap) is
\* written out as []<>(~ENABLED <<A>>_vars) \/ []<><<A>>_vars, with the three
\* phases of the optimizer, in each of which exactly one of the steps can be
\* taken, for ENABLED <<OptimalisatieStap>>_vars.
SpecEerlijk ==
    Spec /\ ([]<>(pc \notin {"verplaatsing", "swapping", "hersamenstelling"})
             \/ []<><<OptimalisatieStap>>_vars)

(***************************************************************************)
(* Calls of the scorer on its own: five players, of whom 1..4 draw every   *)
(* attribute from a set of patterns, and a probe that records one call of  *)
(* calculate_group_quality_score.                                          *)
(***************************************************************************)
ScoreSpelers == 1..5

vier(a, b, c, d, rest) == [p \in ScoreSpelers |-> IF p = 1 THEN a ELSE IF p = 2 THEN b
                                                  ELSE IF p = 3 THEN c ELSE IF p = 4 THEN d
                                                  ELSE rest]

ScoreNiveaus ==
    UNION {{vier(n, n, n, n, n), vier(n, n, n + NiveauStappen, n + NiveauStappen, n),
            vier(n, n + NiveauStappen, n, n + NiveauStappen, n),
            vier(n, n, n, n + NiveauStappen, n),
            vier(n, n, n + 2 * NiveauStappen, n + 2 * NiveauStappen, n),
            vier(0, n, n, n, n), vier(0, n, n, n + NiveauStappen, n),
            vier(n, n + 1, n + NiveauStappen, n + NiveauStappen, n),
            vier(n, n, n + 1, n + 1, n)} :
           n \in {k * NiveauStappen : k \in 5..(MaxNiveau - 1)}}
    \cup {vier(0, 0, 0, 0, 5 * NiveauStappen)}

ScoreGeslachten ==
    {vier("M", "M", "M", "M", "M"), vier("V", "V", "V", "V", "M"), vier("M", "M", "V", "V", "M"),
     vier("M", "V", "V", "V", "M"), vier("M", "M", "M", "V", "M"), vier("V", "V", "M", "M", "M")}

ScoreBlijvers == {{}, {1}, {1, 2}, {1, 2, 3}, {1, 2, 3, 4}}

ScoreLeeftijden ==
    {vier(25, 25, 25, 25, 25), vier(25, 25, 40, 40, 25), vier(25, 40, 60, 60, 25),
     vier(25, 25, 25, -1, 25), vier(25, 25, 60, 60, 25)}

ScoreLocaties == {vier("A", "A", "A", "A", "A"), vier("A", "A", "A", "B", "A")}

\* no wishes; 1 and 2 wish each other; 1 wishes 2; two mutual pairs and three
\* one-sided wishes; a wish for a name that no player carries
ScoreWensen ==
    {vier({}, {}, {}, {}, {}), vier({2}, {1}, {}, {}, {}), vier({2}, {}, {}, {}, {}),
     vier({2, 3, 4}, {1, 4}, {4}, {3}, {}), vier({99}, {}, {}, {}, {})}

ScoreTabel(blijft, geslacht, niveau, leeftijd, samen_met, locatie) ==
    [p \in ScoreSpelers |->
        [Naam |-> p, Geslacht |-> geslacht[p], Niveau |-> niveau[p], Leeftijd |-> leeftijd[p],
         LocatieVoorkeur |-> locatie[p], Blijft |-> p \in blijft,
         SamenMet |-> samen_met[p], Beschikbaar |-> [d \in 1..7 |-> {}]]]

ScoreGroepen == {<<1, 2, 3, 4>>, <<4, 2, 1, 3>>, <<1, 2, 3>>, <<1, 2, 3, 4, 5>>, <<2, 3, 4, 5>>}

InitScore ==
    /\ \E blijft \in ScoreBlijvers, geslacht \in ScoreGeslachten, niveau \in ScoreNiveaus,
          leeftijd \in ScoreLeeftijden, samen_met \in ScoreWensen, locatie \in ScoreLocaties :
          spelers = ScoreTabel(blijft, geslacht, niveau, leeftijd, samen_met, locatie)
    /\ banen = <<>>
    /\ legacy_groepen = <<>>
    /\ trainers_beschikbaarheid = <<>>
    /\ planning = <<>>
    /\ ingeplande_spelers_per_week = [w \in 1..AantalWeken |-> {}]
    /\ niet_ingeplande_spelers = [w \in 1..AantalWeken |-> {}]
    /\ pc = "score"
    /\ lus = LusLeeg
    /\ probe = GeenProbe
    /\ config_document = GeenDocument
    /\ config = standaard_configuratie

\* one call calculate_group_quality_score(groep, locatie); the scorer assigns
\* to no attribute of the engine
ScoreCall ==
    /\ pc = "score"
    /\ \E groep \in ScoreGroepen, locatie \in {"", "A"} :
          probe' = [groep |-> groep, locatie |-> locatie,
                    score |-> calculate_group_quality_score(groep, locatie)]
    /\ UNCHANGED <<invoer, planning, ingeplande_spelers_per_week, niet_ingeplande_spelers,
                   pc, lus>>

SpecScore == InitScore /\ [][ScoreCall]_vars

\* the run and the calls of the scorer together
InitAlles == Init \/ InitScore
NextAlles == Next \/ ScoreCall
SpecAlles == InitAlles /\ [][NextAlles]_vars

\* Calls of the scorer on two player tables that differ in one wish: the
\* group of the probe is scored again after one of its members got a wish for
\* a name that no player carries or for a player outside the group.
InitWens ==
    /\ \E blijft \in {{}, {1, 2}}, geslacht \in ScoreGeslachten, niveau \in ScoreNiveaus,
          samen_met \in ScoreWensen, locatie \in ScoreLocaties :
          spelers = ScoreTabel(blijft, geslacht, niveau, vier(25, 25, 25, 25, 25),
                               samen_met, locatie)
    /\ banen = <<>>
    /\ legacy_groepen = <<>>
    /\ trainers_beschikbaarheid = <<>>
    /\ planning = <<>>
    /\ ingeplande_spelers_per_week = [w \in 1..AantalWeken |-> {}]
    /\ niet_ingeplande_spelers = [w \in 1..AantalWeken |-> {}]
    /\ pc = "score"
    /\ lus = LusLeeg
    /\ probe = GeenProbe
    /\ config_document = GeenDocument
    /\ config = standaard_configuratie

WensErbij ==
    /\ pc = "score"
    /\ probe # GeenProbe
    /\ pc' = "wens"
    /\ UNCHANGED <<banen, legacy_groepen, trainers_beschikbaarheid, config_document, config,
                   planning, ingeplande_spelers_per_week, niet_ingeplande_spelers, lus>>
    /\ \E i \in DOMAIN probe.groep :
          \E w \in ({99} \cup (ScoreSpelers \ Range(probe.groep)))
                       \ spelers[probe.groep[i]].SamenMet :
             spelers' = [spelers EXCEPT ![probe.groep[i]].SamenMet = @ \cup {w}]
    /\ \E groep \in {probe.groep}, locatie \in {probe.locatie} :
          probe' = [groep |-> groep, locatie |-> locatie,
                    score |-> calculate_group_quality_score(groep, locatie)']

SpecWens == InitWens /\ [][ScoreCall \/ WensErbij]_vars

(***************************************************************************)
(* Runs on small inputs: four men and one bucket of courts, and eight men  *)
(* with a historical group of which two members are left, two hours of     *)
(* courts and one trainer for the second hour.                             *)
(***************************************************************************)
\* the largest number of courts of the bucket of the four men
MaxBanen == 3
BaanNamen == <<"A1", "A2", "A3", "A4", "A5", "A6">>

scenario_speler(p, niveau, leeftijd, blijft, beschikbaar) ==
    [Naam |-> p, Geslacht |-> "M", Niveau |-> niveau, Leeftijd |-> leeftijd,
     LocatieVoorkeur |-> "A", Blijft |-> blijft, SamenMet |-> {},
     Beschikbaar |-> [d \in 1..7 |-> IF d = Maandag THEN {beschikbaar} ELSE {}]]

ScenarioLeeftijden == {[p \in 1..8 |-> 25], [p \in 1..8 |-> IF p % 2 = 0 THEN 40 ELSE 25]}

\* four men of one level, free on Monday 18-19, and k courts at Monday, A, 18-19
VierMannen ==
    {[spelers |-> [p \in 1..4 |-> scenario_speler(p, n * NiveauStappen, leeftijd[p], FALSE, <<18, 19>>)],
      banen |-> [b \in 1..k |-> baan(Maandag, "A", <<18, 19>>, BaanNamen[b])],
      legacy_groepen |-> <<>>,
      trainers_beschikbaarheid |-> t] :
        n \in 5..(MaxNiveau - 1), leeftijd \in ScenarioLeeftijden, k \in 1..MaxBanen,
        t \in {<<>>, <<trainer("Piet", Maandag, "A", <<18, 19>>)>>}}

\* eight men, 1..4 free on Monday 18-19 and 5..8 on Monday 19-20, of whom 1 and
\* 2 are what is left of the historical group (1, 2, 98, 99); two courts in
\* each of the two hours; no trainer, one trainer for the second hour, or a
\* trainer for both hours listed after another trainer for the second hour
AchtMannen ==
    {[spelers |-> [p \in 1..8 |-> scenario_speler(p, n * NiveauStappen, leeftijd[p], p \in {1, 2},
                                                    IF p <= 4 THEN <<18, 19>> ELSE <<19, 20>>)],
      banen |-> <<baan(Maandag, "A", <<18, 19>>, "A1"), baan(Maandag, "A", <<18, 19>>, "A2"),
                  baan(Maandag, "A", <<19, 20>>, "A1"), baan(Maandag, "A", <<19, 20>>, "A2")>>,
      legacy_groepen |-> <<[Spelers |-> <<1, 2, 98, 99>>, Dag |-> Maandag, Locatie |-> "A",
                            Tijdslot |-> <<18, 19>>]>>,
      trainers_beschikbaarheid |-> t] :
        n \in 5..(MaxNiveau - 1), leeftijd \in ScenarioLeeftijden,
        t \in {<<>>, <<trainer("Piet", Maandag, "A", <<19, 20>>)>>,
               <<trainer("Jan", Maandag, "A", <<18, 19>>), trainer("Piet", Maandag, "A", <<19, 20>>),
                 trainer("Jan", Maandag, "A", <<19, 20>>)>>}}

\* twelve men of one level, free on Monday 18-20: 1..4 prefer location A, 5..8
\* location B, 9..12 location C, two courts at each location at 18-19; three
\* men of each quad share an age bracket and the fourth, who names a partner
\* that no player is, has the bracket of the next quad
TwaalfMannen ==
    {[spelers |-> [p \in 1..12 |->
                     [scenario_speler(p, n * NiveauStappen,
                                      IF p \in {1, 2, 3, 12} THEN 25
                                      ELSE IF p \in {4, 5, 6, 7} THEN 40 ELSE 60,
                                      FALSE, <<18, 20>>)
                         EXCEPT !.LocatieVoorkeur = IF p <= 4 THEN "A"
                                                    ELSE IF p <= 8 THEN "B" ELSE "C",
                                !.SamenMet = IF p % 4 = 0 THEN {99} ELSE {}]],
      banen |-> <<baan(Maandag, "A", <<18, 19>>, "A1"), baan(Maandag, "A", <<18, 19>>, "A2"),
                  baan(Maandag, "B", <<18, 19>>, "B1"), baan(Maandag, "B", <<18, 19>>, "B2"),
                  baan(Maandag, "C", <<18, 19>>, "C1"), baan(Maandag, "C", <<18, 19>>, "C2")>>,
      legacy_groepen |-> <<>>,
      trainers_beschikbaarheid |-> <<>>] :
        n \in 5..(MaxNiveau - 1)}

\* four men and four women of one level, free on Monday 18-19, two courts at
\* Monday, A, 18-19, and no trainer or one trainer listed for that slot
VierMannenVierVrouwen ==
    {[spelers |-> [p \in 1..8 |->
                     [scenario_speler(p, n * NiveauStappen, 25, FALSE, <<18, 19>>)
                         EXCEPT !.Geslacht = IF p <= 4 THEN "M" ELSE "V"]],
      banen |-> <<baan(Maandag, "A", <<18, 19>>, "A1"), baan(Maandag, "A", <<18, 19>>, "A2")>>,
      legacy_groepen |-> <<>>,
      trainers_beschikbaarheid |-> t] :
        n \in 5..(MaxNiveau - 1),
        t \in {<<>>, <<trainer("Piet", Maandag, "A", <<18, 19>>)>>}}

\* two men and two women free on Monday 18-19 and two men and two women free on
\* Monday 19-20, of one level and of three age brackets in each hour, and one
\* court at location A in each of the two hours
TweeUrenGemengd ==
    {[spelers |-> [p \in 1..8 |->
                     [scenario_speler(p, n * NiveauStappen,
                                      IF p % 4 = 1 THEN 25 ELSE IF p % 4 = 2 THEN 40 ELSE 60,
                                      FALSE, IF p <= 4 THEN <<18, 19>> ELSE <<19, 20>>)
                         EXCEPT !.Geslacht = IF p % 4 \in {1, 2} THEN "M" ELSE "V"]],
      banen |-> <<baan(Maandag, "A", <<18, 19>>, "A1"), baan(Maandag, "A", <<19, 20>>, "A1")>>,
      legacy_groepen |-> <<>>,
      trainers_beschikbaarheid |-> <<>>] :
        n \in 5..(MaxNiveau - 1)}

InitScenario ==
    /\ \E s \in VierMannen \cup AchtMannen :
          /\ spelers = s.spelers
          /\ banen = s.banen
          /\ legacy_groepen = s.legacy_groepen
          /\ trainers_beschikbaarheid = s.trainers_beschikbaarheid
    /\ planning = <<>>
    /\ ingeplande_spelers_per_week = [w \in 1..AantalWeken |-> {}]
    /\ niet_ingeplande_spelers = [w \in 1..AantalWeken |-> {}]
    /\ pc = IF legacy_groepen # <<>> THEN "legacy" ELSE "fill"
    /\ lus = [LusLeeg EXCEPT !.week = 1, !.idx = 1, !.dag = 1]
    /\ probe = GeenProbe
    /\ config_document = GeenDocument
    /\ config = standaard_configuratie

SpecScenario == InitScenario /\ [][Next]_vars

(***************************************************************************)
(* Calls of the group builder on a pool of the twelve players.             *)
(***************************************************************************)
\* the twelve players of a run, or with men and women alternating, or all
\* women, or with player 1 alone in an older age bracket, or with two pairs of players who
\* wish each other; the built-in configuration or one with a window of six
\* candidates
InitBouw ==
    /\ \E geslacht \in GeslachtPatronen \cup {[p \in Spelers12 |-> IF p % 2 = 1 THEN "M" ELSE "V"],
                                              [p \in Spelers12 |-> "V"]},
          niveau \in NiveauPatronen,
          leeftijd \in LeeftijdPatronen \cup {[p \in Spelers12 |-> IF p = 1 THEN 40 ELSE 25]},
          samen_met \in SamenMetPatronen
                        \cup {[p \in Spelers12 |-> IF p \in {1, 2} THEN {p + 4}
                                                   ELSE IF p \in {5, 6} THEN {p - 4} ELSE {}]} :
          spelers = SpelerTabel({}, geslacht, niveau, leeftijd, samen_met,
                                [p \in Spelers12 |-> [d \in 1..7 |-> {}]])
    /\ banen = <<>>
    /\ legacy_groepen = <<>>
    /\ trainers_beschikbaarheid = <<>>
    /\ planning = <<>>
    /\ ingeplande_spelers_per_week = [w \in 1..AantalWeken |-> {}]
    /\ niet_ingeplande_spelers = [w \in 1..AantalWeken |-> {}]
    /\ pc = "bouw"
    /\ lus = LusLeeg
    /\ probe = GeenProbe
    /\ config_document \in
           {GeenDocument,
            [soort |-> "object",
             velden |-> [standaard_configuratie EXCEPT
                             !.optimalisatie_instellingen.max_kandidaten_per_homogene_groep = 6]]}
    /\ config = _laad_configuratie(config_document)

\* one call optimize_groups_in_slot(lijst, max_groepen, locatie) on a pool of
\* players who prefer the location; mannen and vrouwen are what the two calls
\* of create_optimized_homogene_groups inside it return; a behaviour holds one
\* call
BouwCall ==
    /\ pc = "bouw"
    /\ probe = GeenProbe
    /\ \E aanroep \in {<<1, 12, "">>, <<1, 8, "">>, <<1, 8, "A">>, <<9, 12, "B">>, <<1, 3, "A">>},
          max_groepen \in 0..MaxBanen :
          LET lijst == [k \in 1..(aanroep[2] - aanroep[1] + 1) |-> aanroep[1] + k - 1]
              locatie == aanroep[3]
              mannen == create_optimized_homogene_groups(
                            SelectSeq(lijst, LAMBDA p : spelers[p].Geslacht = "M"),
                            max_groepen \div 2, locatie)
              vrouwen == create_optimized_homogene_groups(
                            zonder(SelectSeq(lijst, LAMBDA p : spelers[p].Geslacht = "V"),
                                   leden(mannen)),
                            max_groepen - Len(mannen), locatie)
          IN probe' = [lijst |-> lijst, max_groepen |-> max_groepen, locatie |-> locatie,
                       mannen |-> mannen, vrouwen |-> vrouwen,
                       groepen |-> optimize_groups_in_slot(lijst, max_groepen, locatie)]
    /\ UNCHANGED <<invoer, planning, ingeplande_spelers_per_week, niet_ingeplande_spelers,
                   pc, lus>>

SpecBouw == InitBouw /\ [][BouwCall]_vars

(***************************************************************************)
(* Construction.  The engine is built from a configuration document and    *)
(* then runs on the tables of the scenarios.                               *)
(***************************************************************************)
\* __init__: load the configuration, then read its sections; a section or
\* key the loaded dictionary lacks raises KeyError and no engine exists
Construeer ==
    /\ pc = "constructie"
    /\ config' = _laad_configuratie(config_document)
    /\ pc' = IF init_leest(config')
             THEN IF legacy_groepen # <<>> THEN "legacy" ELSE "fill"
             ELSE "afgebroken"
    /\ UNCHANGED <<spelers, banen, legacy_groepen, trainers_beschikbaarheid, planning,
                   ingeplande_spelers_per_week, niet_ingeplande_spelers, lus, probe,
                   config_document>>

InitConstructie ==
    /\ \E s \in VierMannen \cup AchtMannen \cup TwaalfMannen \cup VierMannenVierVrouwen
                \cup TweeUrenGemengd :
          /\ spelers = s.spelers
          /\ banen = s.banen
          /\ legacy_groepen = s.legacy_groepen
          /\ trainers_beschikbaarheid = s.trainers_beschikbaarheid
    /\ planning = <<>>
    /\ ingeplande_spelers_per_week = [w \in 1..AantalWeken |-> {}]
    /\ niet_ingeplande_spelers = [w \in 1..AantalWeken |-> {}]
    /\ pc = "constructie"
    /\ lus = [LusLeeg EXCEPT !.week = 1, !.idx = 1, !.dag = 1]
    /\ probe = GeenProbe
    /\ config_document \in Documenten
    /\ config = [geladen |-> FALSE]    \* nothing is loaded before __init__ runs

NextConstructie == Construeer \/ Next

SpecConstructie == InitConstructie /\ [][NextConstructie]_vars

(***************************************************************************)
(* Properties.                                                             *)
(***************************************************************************)
\* C1: no player identity appears in the member lists of two different
\* matches of the same week.
C1_GeenSpelerTweemaalPerWeek ==
    \A i, j \in DOMAIN planning :
        (i # j /\ planning[i].week = planning[j].week) =>
            Range(planning[i].spelers) \cap Range(planning[j].spelers) = {}

\* C2: no two matches share (week, day, location, time-interval, court).
C2_GeenBaanBotsing ==
    \A i, j \in DOMAIN planning : i # j => sleutel(planning[i]) # sleutel(planning[j])

C10_OptimizerMonotoon ==
    pc \in {"verplaatsing", "swapping", "hersamenstelling"} =>
        totaal_score(planning) >= lus.start_totaal + min_score_verbetering * lus.verbeteringen

\* plan_trainers_in has gone through the whole plan
trainers_toegewezen == (pc = "trainers" /\ lus.k > Len(planning)) \/ pc = "klaar"

zelfde_slot(m1, m2) ==
    m1.week = m2.week /\ m1.day = m2.day /\ m1.location = m2.location /\ m1.time = m2.time

\* C4: once the trainer assignment has gone through the plan, two different
\* matches of the same (week, day, location, time) carry the same trainer only
\* when that trainer is the "none available" sentinel, also when the
\* availability list names a trainer twice for the slot.
C4_GeenTrainerBotsing ==
    trainers_toegewezen =>
        \A i, j \in DOMAIN planning :
            (i # j /\ zelfde_slot(planning[i], planning[j])
                   /\ planning[i].trainer = planning[j].trainer) =>
                planning[i].trainer = "GEEN_TRAINER_BESCHIKBAAR"

\* C4 witness: a trainer is listed twice for a slot that holds two matches, one
\* of which got that trainer and the other a different one.
C4_Getuige ==
    /\ trainers_toegewezen
    /\ \E i, j \in DOMAIN planning :
          /\ i # j /\ zelfde_slot(planning[i], planning[j])
          /\ Cardinality({k \in DOMAIN trainers_beschikbaarheid :
                 /\ trainers_beschikbaarheid[k].TrainerNaam = planning[i].trainer
                 /\ trainers_beschikbaarheid[k].Dag = planning[i].day
                 /\ trainers_beschikbaarheid[k].Locatie = planning[i].location
                 /\ trainers_beschikbaarheid[k].Tijdslot = planning[i].time}) >= 2
          /\ planning[j].trainer \notin {planning[i].trainer, "", "GEEN_TRAINER_BESCHIKBAAR"}

\* the gender-corrected levels present in a group
gecorrigeerde_niveaus(groep) ==
    {_get_gecorrigeerd_niveau(groep[i]) : i \in DOMAIN groep} \ {0}

spreiding_binnen_maximum(groep) ==
    \A a, b \in gecorrigeerde_niveaus(groep) : a - b <= max_niveau_verschil * NiveauStappen

twee_niveaus_twee_om_twee(groep) ==
    Cardinality(gecorrigeerde_niveaus(groep)) = 2 =>
        \A n \in gecorrigeerde_niveaus(groep) :
            Cardinality({i \in DOMAIN groep : _get_gecorrigeerd_niveau(groep[i]) = n}) = 2

\* the mix rule as the code applies it: with more than one level present,
\* every level occurs exactly twice
elk_niveau_tweemaal(groep) ==
    Cardinality(gecorrigeerde_niveaus(groep)) > 1 =>
        \A n \in gecorrigeerde_niveaus(groep) :
            Cardinality({i \in DOMAIN groep : _get_gecorrigeerd_niveau(groep[i]) = n}) = 2

\* C5 as stated: every match, legacy matches included, has a corrected level
\* spread within the maximum and, when it spans exactly two levels, a 2/2 split.
C5_Origineel ==
    \A i \in DOMAIN planning :
        spreiding_binnen_maximum(planning[i].spelers)
        /\ twee_niveaus_twee_om_twee(planning[i].spelers)

\* C5: every match that is not a legacy match has four players, a corrected
\* level spread within the maximum and, when it spans more than one level,
\* every level exactly twice; the legacy planner stores its groups without the
\* hard filters once the group has min_legacy_blijvers stayers.
C5_NieuweGroepenBinnenFilters ==
    \A i \in DOMAIN planning :
        ~planning[i].legacy =>
            /\ Len(planning[i].spelers) = groepsgrootte
            /\ spreiding_binnen_maximum(planning[i].spelers)
            /\ elk_niveau_tweemaal(planning[i].spelers)

\* C5 witness: the run is over and the plan holds a new match spanning two
\* levels next to a legacy match whose group is outside the level filters.
C5_Getuige ==
    /\ pc = "klaar"
    /\ \E i \in DOMAIN planning :
          ~planning[i].legacy /\ Cardinality(gecorrigeerde_niveaus(planning[i].spelers)) = 2
    /\ \E j \in DOMAIN planning :
          planning[j].legacy /\ ~(spreiding_binnen_maximum(planning[j].spelers)
                                  /\ twee_niveaus_twee_om_twee(planning[j].spelers))

\* C6: every value the scorer returns and every score stored on a match lies
\* in [0, 10] (scores are counted in 1/60 point).
C6_ScoreBinnenBereik ==
    /\ 0 <= probe.score /\ probe.score <= 10 * 60
    /\ \A i \in DOMAIN planning :
          0 <= planning[i].quality_score /\ planning[i].quality_score <= 10 * 60

\* C6 witness: the scorer returned exactly 10 for a new group whose wishes
\* alone (two mutual pairs, three one-sided wishes) exceed the cap of the
\* SamenMet criterion.
C6_Getuige ==
    /\ Len(probe.groep) = 4 /\ aantal_blijvend(probe.groep) = 0
    /\ Cardinality(wederzijdse_paren(probe.groep)) = 2
    /\ Cardinality(enkelzijdige_voorkeuren(probe.groep)) = 3
    /\ probe.score = 10 * 60

is_nieuwe_groep(groep) == aantal_blijvend(groep) < min_legacy_blijvers

locatie_past(groep, locatie) ==
    (locatie_strikt /\ locatie # "") =>
        \A i \in DOMAIN groep : spelers[groep[i]].LocatieVoorkeur = locatie

\* C7 as stated: a non-legacy group scores 0 exactly when its size is not 4,
\* a member prefers another location than the strict one given, the spread is
\* above the maximum, or it spans exactly two levels that are not split 2/2.
C7_Origineel ==
    (probe.groep # <<>> /\ is_nieuwe_groep(probe.groep)) =>
        (probe.score = 0 <=>
            \/ Len(probe.groep) # 4
            \/ ~locatie_past(probe.groep, probe.locatie)
            \/ ~spreiding_binnen_maximum(probe.groep)
            \/ ~twee_niveaus_twee_om_twee(probe.groep))

\* C7: a non-legacy group scores 0 exactly when its size is not 4, a member
\* prefers another location than the strict one given, the spread is above the
\* maximum, or it spans more than one level and some level does not occur
\* exactly twice; every other non-legacy group scores above 0.
C7_NulDanEnSlechtsDanAfgekeurd ==
    (probe.groep # <<>> /\ is_nieuwe_groep(probe.groep)) =>
        /\ probe.score >= 0
        /\ probe.score = 0 <=>
              \/ Len(probe.groep) # 4
              \/ ~locatie_past(probe.groep, probe.locatie)
              \/ ~spreiding_binnen_maximum(probe.groep)
              \/ ~elk_niveau_tweemaal(probe.groep)

\* C7 witness: a non-legacy group of 4 at its own location, within the spread,
\* with three distinct levels, scored 0.
C7_Getuige ==
    /\ Len(probe.groep) = 4 /\ is_nieuwe_groep(probe.groep)
    /\ locatie_past(probe.groep, probe.locatie) /\ probe.locatie # ""
    /\ spreiding_binnen_maximum(probe.groep)
    /\ Cardinality(gecorrigeerde_niveaus(probe.groep)) = 3
    /\ probe.score = 0

\* C8: the value the scorer returned for a group of 4 is the value it returns
\* for every ordering of the same players at the same location, and the calls
\* left the plan, the scheduled sets and the loop positions as they were.
C8_ScoreVolgordeOnafhankelijk ==
    (pc = "score" /\ probe.groep # <<>>) =>
        /\ Len(probe.groep) = 4 =>
              \A f \in Permutaties(4) :
                  calculate_group_quality_score(Herschik(probe.groep, f), probe.locatie)
                      = probe.score
        /\ planning = <<>> /\ lus = LusLeeg
        /\ \A w \in 1..AantalWeken :
              ingeplande_spelers_per_week[w] = {} /\ niet_ingeplande_spelers[w] = {}

\* C8 witness: a group given in another order than 1, 2, 3, 4, with a
\* one-sided wish and two levels split over alternating members, scored above 0.
C8_Getuige ==
    /\ probe.groep = <<4, 2, 1, 3>> /\ probe.score > 0
    /\ Cardinality(enkelzijdige_voorkeuren(probe.groep)) = 1
    /\ _get_gecorrigeerd_niveau(1) = _get_gecorrigeerd_niveau(3)
    /\ _get_gecorrigeerd_niveau(1) # _get_gecorrigeerd_niveau(2)

\* C9 as stated: a group of 4 whose members are all flagged as staying scores
\* volledige_legacy_score.
C9_Origineel ==
    (Len(probe.groep) = 4 /\ aantal_blijvend(probe.groep) = 4) =>
        probe.score = volledige_legacy_score

\* C9: a group of 4 whose members are all flagged as staying scores
\* volledige_legacy_score when it passes the hard filters, whatever the
\* genders and ages, and 0 when it fails one.
C9_VolledigeLegacyNaFilters ==
    (Len(probe.groep) = 4 /\ aantal_blijvend(probe.groep) = 4) =>
        probe.score =
            IF /\ locatie_past(probe.groep, probe.locatie)
               /\ spreiding_binnen_maximum(probe.groep)
               /\ elk_niveau_tweemaal(probe.groep)
            THEN volledige_legacy_score ELSE 0

\* C9 witness: four stayers of two levels, two women and two men and three
\* age brackets scored volledige_legacy_score.
C9_Getuige ==
    /\ Len(probe.groep) = 4 /\ aantal_blijvend(probe.groep) = 4
    /\ Cardinality(gecorrigeerde_niveaus(probe.groep)) = 2
    /\ Cardinality({i \in DOMAIN probe.groep : spelers[probe.groep[i]].Geslacht = "V"}) = 2
    /\ Cardinality({leeftijdscategorie(spelers[probe.groep[i]].Leeftijd) :
                       i \in DOMAIN probe.groep}) = 3
    /\ probe.score = volledige_legacy_score

\* every day of week w has been filled
week_gevuld(w) ==
    /\ pc # "legacy"
    /\ pc = "fill" => lus.week > w
    /\ pc = "niet_ingepland" => lus.week >= w

\* the input is four men of one level without wishes and without a historical
\* group, and one bucket of courts at their location and in their free hours
vier_mannen_een_bucket ==
    /\ DOMAIN spelers = 1..4 /\ banen # <<>> /\ legacy_groepen = <<>>
    /\ \A p \in DOMAIN spelers :
          /\ spelers[p].Geslacht = "M" /\ spelers[p].SamenMet = {}
          /\ spelers[p].Niveau = spelers[1].Niveau /\ spelers[p].Niveau # 0
          /\ spelers[p].LocatieVoorkeur = banen[1].Locatie
          /\ heeft_tijd(p, banen[1].Dag, banen[1].Tijdslot)
    /\ \A b \in DOMAIN banen :
          /\ banen[b].Dag = banen[1].Dag /\ banen[b].Locatie = banen[1].Locatie
          /\ banen[b].Tijdslot = banen[1].Tijdslot

\* C11: with four men of one level, without wishes, who all prefer the
\* location of the only bucket and are free at its day and time, every week
\* that has been filled holds exactly one match, in that bucket and with those
\* four players, whatever the number of courts of the bucket.
C11_EenGroepVoorVierMannen ==
    vier_mannen_een_bucket =>
        \A w \in 1..AantalWeken :
            week_gevuld(w) =>
                /\ Cardinality({i \in DOMAIN planning : planning[i].week = w}) = 1
                /\ \A i \in DOMAIN planning :
                      planning[i].week = w =>
                          /\ Range(planning[i].spelers) = 1..4
                          /\ planning[i].day = banen[1].Dag
                          /\ planning[i].location = banen[1].Locatie
                          /\ planning[i].time = banen[1].Tijdslot

\* the legacy planner has gone through week w and the optimizer has not begun
legacy_klaar(w) ==
    \/ pc = "legacy" /\ lus.week > w
    \/ pc \in {"fill", "niet_ingepland"}

\* the members of a historical group that are players flagged as staying
blijvers_van(legacy_groep) ==
    {p \in DOMAIN spelers : /\ spelers[p].Blijft
                            /\ \E k \in DOMAIN legacy_groep.Spelers :
                                  _vind_speler_by_naam(legacy_groep.Spelers[k]) = p}

vrij_op_slot(p, legacy_groep) ==
    /\ heeft_tijd(p, legacy_groep.Dag, legacy_groep.Tijdslot)
    /\ spelers[p].LocatieVoorkeur = legacy_groep.Locatie

\* the only historical group has exactly two members left who stay, both free
\* at its slot, a court at its slot, and two more players free at its slot
twee_van_vier ==
    /\ Len(legacy_groepen) = 1
    /\ Cardinality(blijvers_van(legacy_groepen[1])) = 2
    /\ \A p \in blijvers_van(legacy_groepen[1]) : vrij_op_slot(p, legacy_groepen[1])
    /\ \E b \in DOMAIN banen : /\ banen[b].Dag = legacy_groepen[1].Dag
                               /\ banen[b].Locatie = legacy_groepen[1].Locatie
                               /\ banen[b].Tijdslot = legacy_groepen[1].Tijdslot
    /\ Cardinality({p \in DOMAIN spelers \ blijvers_van(legacy_groepen[1]) :
                       vrij_op_slot(p, legacy_groepen[1])}) >= 2

\* positions in the plan of the legacy matches of week w at the slot of the
\* historical group
legacy_matches(w) ==
    {i \in DOMAIN planning : /\ planning[i].legacy /\ planning[i].week = w
                             /\ planning[i].day = legacy_groepen[1].Dag
                             /\ planning[i].location = legacy_groepen[1].Locatie
                             /\ planning[i].time = legacy_groepen[1].Tijdslot}

trainer_sleutel(m, naam) == <<m.week, m.day, m.time, m.location, naam>>

\* the real trainers listed for the slot of a match and not booked for it
echte_trainers_vrij(m, bezet) ==
    {trainers_beschikbaarheid[r].TrainerNaam :
        r \in {q \in DOMAIN trainers_beschikbaarheid :
                  /\ trainers_beschikbaarheid[q].Dag = m.day
                  /\ trainers_beschikbaarheid[q].Locatie = m.location
                  /\ trainers_beschikbaarheid[q].Tijdslot = m.time
                  /\ trainers_beschikbaarheid[q].TrainerNaam \notin Range(dummy_trainers)
                  /\ trainer_sleutel(m, trainers_beschikbaarheid[q].TrainerNaam) \notin bezet}}

\* the match plan_trainers_in handles next
volgende_match == planning[trainer_volgorde(planning)[lus.k]]

\* C13: whenever plan_trainers_in handles a match for whose slot a real trainer
\* and a placeholder are both listed and not booked, the match gets one of the
\* real trainers that are not booked, also when a placeholder was booked for
\* the hour before.
C13_EchteTrainerGekozen ==
    [][(/\ pc = "trainers" /\ lus.k <= Len(planning)
        /\ echte_trainers_vrij(volgende_match, lus.bezet) # {}
        /\ \E d \in Range(dummy_trainers) : trainer_sleutel(volgende_match, d) \notin lus.bezet)
       => planning'[trainer_volgorde(planning)[lus.k]].trainer
              \in echte_trainers_vrij(volgende_match, lus.bezet)]_vars

\* C13 witness: in the current pass a match got a real trainer although a
\* placeholder that was free for its slot holds the hour before at the location.
C13_Getuige ==
    /\ pc = "trainers"
    /\ \E i, j \in DOMAIN planning :
          /\ planning[i].week = planning[j].week /\ planning[i].day = planning[j].day
          /\ planning[i].location = planning[j].location
          /\ planning[i].time = _get_previous_timeslot(planning[j].time)
          /\ planning[i].trainer \in Range(dummy_trainers)
          /\ trainer_sleutel(planning[i], planning[i].trainer) \in lus.bezet
          /\ trainer_sleutel(planning[j], planning[i].trainer) \notin lus.bezet
          /\ planning[j].trainer \notin Range(dummy_trainers) \cup {"", "GEEN_TRAINER_BESCHIKBAAR"}
          /\ trainer_sleutel(planning[j], planning[j].trainer) \in lus.bezet

\* the last call of the scorer was on a group of four that is no legacy
\* group and passes the hard filters
nieuwe_groep_gescoord ==
    /\ Len(probe.groep) = groepsgrootte
    /\ is_nieuwe_groep(probe.groep)
    /\ _voldoet_aan_harde_filters(probe.groep, probe.locatie)

\* four equal corrected levels, wishes that make exactly one mutual pair, two
\* men and two women, four known ages in one bracket
een_niveau_een_paar_twee_om_twee(groep) ==
    /\ geldige_niveaus(groep) = DOMAIN groep
    /\ Cardinality(niveau_waarden(groep)) = 1
    /\ Cardinality(wederzijdse_paren(groep)) = 1
    /\ enkelzijdige_voorkeuren(groep) = {}
    /\ Cardinality({i \in DOMAIN groep : spelers[groep[i]].Geslacht = "M"}) = 2
    /\ Cardinality({i \in DOMAIN groep : spelers[groep[i]].Geslacht = "V"}) = 2
    /\ \A i \in DOMAIN groep : spelers[groep[i]].Leeftijd # -1
    /\ Cardinality({leeftijdscategorie(spelers[groep[i]].Leeftijd) : i \in DOMAIN groep}) = 1

\* C14: the score of a group of four that is no legacy group and passes the
\* hard filters is exactly the sum of its level, SamenMet, gender and age
\* scores; for four equal corrected levels, one mutual pair, two men and two
\* women and one age bracket that is 3.0 + 2.0 + 1.5 + 1.0.
C14_ScoreIsSomVanCriteria ==
    nieuwe_groep_gescoord =>
        /\ probe.score = _bereken_niveau_score(probe.groep) + _bereken_samen_met_score(probe.groep)
                         + _bereken_geslacht_score(probe.groep) + _bereken_leeftijd_score(probe.groep)
        /\ een_niveau_een_paar_twee_om_twee(probe.groep) =>
              probe.score = niveau_max_punten + een_paar + perfect_2m_2v + leeftijd_max_punten

\* C14 witness: the scorer was called on two women and two men of one corrected
\* level and one age bracket, the two women wishing each other, and returned 7.5.
C14_Getuige ==
    /\ nieuwe_groep_gescoord
    /\ een_niveau_een_paar_twee_om_twee(probe.groep)
    /\ probe.score = 450

\* C17: a call of _verwerk_legacy_groep that adds no match to the plan leaves
\* the scheduled set of the week as it was.
C17_MisluktLaatIngeplandOngemoeid ==
    [][(pc = "legacy" /\ planning' = planning)
       => ingeplande_spelers_per_week' = ingeplande_spelers_per_week]_vars

\* vind_niet_ingeplande_spelers has reported week w
week_gerapporteerd(w) ==
    \/ pc = "fill" /\ lus.week > w
    \/ pc = "niet_ingepland" /\ lus.week > w
    \/ pc \notin {"legacy", "fill", "niet_ingepland", "score"}

\* the players who are a member of some match of week w
leden_van_week(w) ==
    UNION {Range(planning[i].spelers) : i \in {j \in DOMAIN planning : planning[j].week = w}}

\* C15: once a week is reported, its scheduled set is the union of the members
\* of the matches of that week, the reported unscheduled players are exactly
\* the players in no match of that week, and the two sets partition the players.
C15_NietIngeplandIsZonderMatch ==
    \A w \in 1..AantalWeken :
        week_gerapporteerd(w) =>
            /\ ingeplande_spelers_per_week[w] = leden_van_week(w)
            /\ niet_ingeplande_spelers[w] = DOMAIN spelers \ leden_van_week(w)
            /\ niet_ingeplande_spelers[w] \cap ingeplande_spelers_per_week[w] = {}
            /\ niet_ingeplande_spelers[w] \cup ingeplande_spelers_per_week[w] = DOMAIN spelers

OptimalisatieFasen == {"verplaatsing", "swapping", "hersamenstelling"}

\* the round of the optimizer has run its three sweeps
ronde_voorbij == pc = "hersamenstelling" /\ lus.w > Len(lus.weken)

\* the sweeps follow each other as relocation, swap, reassembly, and a round
\* is followed by the next round or by the end of the optimizer
sweeps_op_volgorde ==
    /\ pc = "verplaatsing" => pc' \in {"verplaatsing", "swapping"}
    /\ pc = "swapping" => pc' \in {"swapping", "hersamenstelling"}
    /\ pc = "hersamenstelling" => pc' \in {"hersamenstelling", "verplaatsing", "trainers"}
    /\ (pc \notin OptimalisatieFasen /\ pc' \in OptimalisatieFasen) =>
           pc' = "verplaatsing" /\ lus'.iteratie = 1

\* a step of a sweep counts a change exactly when it changes the plan
wijziging_geteld ==
    (pc \in OptimalisatieFasen /\ ~ronde_voorbij) =>
        /\ lus'.iteratie = lus.iteratie
        /\ planning' # planning <=> lus'.verbeteringen > lus.verbeteringen

\* after a round: the end of the optimizer when the round changed nothing or
\* was the last one allowed, the next round otherwise
ronde_einde ==
    ronde_voorbij =>
        /\ planning' = planning
        /\ lus.verbeteringen = 0 => pc' = "trainers"
        /\ lus.iteratie >= max_verbeter_iteraties => pc' = "trainers"
        /\ (lus.verbeteringen > 0 /\ lus.iteratie < max_verbeter_iteraties) =>
               /\ pc' = "verplaatsing"
               /\ lus'.iteratie = lus.iteratie + 1
               /\ lus'.verbeteringen = 0

swap_match1 == planning[week_matches(planning, lus.weken[lus.w])[lus.i]]
swap_match2 == planning[week_matches(planning, lus.weken[lus.w])[lus.j]]

\* the swap sweep accepts a swap in this step
swap_aanvaard == pc = "swapping" /\ lus.w # 0 /\ lus'.verbeteringen > lus.verbeteringen

\* the exchange of member i of swap_match1 and member j of swap_match2 meets
\* the conditions, and the plan now holds the two new groups with their scores
wissel_voldoet(i, j) ==
    LET groep1 == [_haal_spelers_uit_match(swap_match1)
                      EXCEPT ![i] = _haal_spelers_uit_match(swap_match2)[j]]
        groep2 == [_haal_spelers_uit_match(swap_match2)
                      EXCEPT ![j] = _haal_spelers_uit_match(swap_match1)[i]]
        score1 == calculate_group_quality_score(groep1, "")
        score2 == calculate_group_quality_score(groep2, "")
    IN /\ heeft_tijd(_haal_spelers_uit_match(swap_match1)[i], swap_match2.day, swap_match2.time)
       /\ heeft_tijd(_haal_spelers_uit_match(swap_match2)[j], swap_match1.day, swap_match1.time)
       /\ score1 + score2
              > swap_match1.quality_score + swap_match2.quality_score + min_score_verbetering
       /\ score1 >= minimale_kwaliteitsdrempel
       /\ score2 >= minimale_kwaliteitsdrempel
       /\ \E x \in DOMAIN planning' :
             planning'[x].spelers = groep1 /\ planning'[x].quality_score = score1
       /\ \E y \in DOMAIN planning' :
             planning'[y].spelers = groep2 /\ planning'[y].quality_score = score2

VerplaatsingVerandertNiets == [][pc = "verplaatsing" => planning' = planning]_vars


\* the configuration document holds every section and key the engine reads
document_volledig ==
    config_document.soort = "object" /\ init_leest(config_document.velden)

\* C16: construction never aborts because of the configuration document,
\* whatever it holds: once construction is over an engine exists, and unless
\* the document was a complete configuration the engine runs on the built-in
\* defaults.
C16_ConstructieBreektNietAf ==
    pc # "constructie" =>
        /\ pc # "afgebroken"
        /\ (~document_volledig => config = standaard_configuratie)

\* the swap sweep accepted a swap in this step
swap_geteld == pc = "swapping" /\ lus'.verbeteringen > lus.verbeteringen

\* C21: in every optimizer round the number of accepted swaps within a week
\* never exceeds the configured maximum of swaps per week: a swap is accepted
\* only while the swaps of the week counted so far are fewer than the maximum.
C21_SwapsPerWeekBegrensd ==
    [][swap_geteld => lus.week_swaps < config.optimalisatie_instellingen.max_swaps_per_week]_vars

\* C21 witness: the maximum is one swap, the sweep has left the first week
\* after one accepted swap, and two matches of that week would still swap.
C21_Getuige ==
    /\ pc = "swapping"
    /\ config.optimalisatie_instellingen.max_swaps_per_week = 1
    /\ lus.verbeteringen = 1
    /\ lus.w # 1
    /\ \E c, d \in DOMAIN planning :
          /\ c < d
          /\ planning[c].week = lus.weken[1]
          /\ planning[d].week = lus.weken[1]
          /\ _probeer_speler_swap_tussen_groepen(planning, planning[c], planning[d]).ok


\* the week the reassembly sweep is at, and its non-legacy matches below the
\* poor threshold
hersamenstelling_week == lus.weken[lus.w]
slecht_in_week ==
    {i \in DOMAIN planning :
        /\ planning[i].week = hersamenstelling_week
        /\ ~planning[i].legacy
        /\ planning[i].quality_score < slechte_groep_drempel}

\* the matches the step took out of the plan and the ones it put in
verwijderd == {i \in DOMAIN planning : planning[i] \notin Range(planning')}
toegevoegd == {j \in DOMAIN planning' : planning'[j] \notin Range(planning)}

aantal_in_week(plan, w) == Cardinality({i \in DOMAIN plan : plan[i].week = w})
bezette_sleutels(plan) == {sleutel(plan[i]) : i \in DOMAIN plan}
spelers_in_week(plan, w) ==
    UNION {Range(plan[i].spelers) : i \in {k \in DOMAIN plan : plan[k].week = w}}

\* C23: an accepted reassembly leaves unchanged the number of matches of the
\* week, the set of (week, day, location, time, court) keys occupied in the
\* plan and the set of players in matches of that week.
C23_HersamenstellingBehoudtSlotsEnSpelers ==
    [][(pc = "hersamenstelling" /\ planning' # planning) =>
          /\ aantal_in_week(planning', hersamenstelling_week)
                 = aantal_in_week(planning, hersamenstelling_week)
          /\ bezette_sleutels(planning') = bezette_sleutels(planning)
          /\ spelers_in_week(planning', hersamenstelling_week)
                 = spelers_in_week(planning, hersamenstelling_week)]_vars

\* C23 witness: a week of at least two matches was rebuilt and stands behind
\* a later week, in a plan in which every match has a court key of its own.
C23_Getuige ==
    /\ pc = "hersamenstelling"
    /\ \A c, d \in DOMAIN planning : c # d => sleutel(planning[c]) # sleutel(planning[d])
    /\ \E i, j \in DOMAIN planning :
          /\ i < j /\ planning[i].week > planning[j].week
          /\ aantal_in_week(planning, planning[j].week) >= 2

\* C24: the optimizer never changes a legacy match: every legacy match of the
\* plan is in the plan after any optimizer step with the same week, day,
\* location, time, court, members, score and tag.
C24_LegacyOngemoeidDoorOptimizer ==
    [][(pc \in OptimalisatieFasen) =>
          (\A i \in DOMAIN planning :
               planning[i].legacy => planning[i] \in Range(planning'))]_vars

\* the positions in the plan of the two matches the swap sweep tries next
swap_positie1 == week_matches(planning, lus.weken[lus.w])[lus.i]
swap_positie2 == week_matches(planning, lus.weken[lus.w])[lus.j]

\* match k differs after the step at most in the named fields
alleen_plaats_en_score(k) ==
    planning'[k] = [planning[k] EXCEPT !.day = planning'[k].day,
                                       !.location = planning'[k].location,
                                       !.time = planning'[k].time,
                                       !.baan = planning'[k].baan,
                                       !.quality_score = planning'[k].quality_score]
alleen_leden_en_score(k) ==
    planning'[k] = [planning[k] EXCEPT !.spelers = planning'[k].spelers,
                                       !.quality_score = planning'[k].quality_score]

\* a relocation step changes one match at most, and of that match only the
\* day, location, time, court and score
verplaatsing_lokaal ==
    (pc = "verplaatsing" /\ planning' # planning) =>
        /\ Len(planning') = Len(planning)
        /\ \E k \in DOMAIN planning :
              /\ alleen_plaats_en_score(k)
              /\ \A x \in DOMAIN planning \ {k} : planning'[x] = planning[x]

\* a swap step changes the two matches it tried at most, and of those only the
\* members and the score
swap_lokaal ==
    (pc = "swapping" /\ planning' # planning) =>
        /\ Len(planning') = Len(planning)
        /\ alleen_leden_en_score(swap_positie1)
        /\ alleen_leden_en_score(swap_positie2)
        /\ \A x \in DOMAIN planning \ {swap_positie1, swap_positie2} :
              planning'[x] = planning[x]

\* C25: a relocation changes only the day, location, time, court and score of
\* the one moved match, a swap changes only the members and scores of the two
\* matches involved; every other match and the scheduled sets of the weeks are
\* what they were.
C25_VerplaatsingEnSwapLokaal ==
    [][/\ verplaatsing_lokaal
       /\ swap_lokaal
       /\ (pc \in {"verplaatsing", "swapping"} =>
              ingeplande_spelers_per_week' = ingeplande_spelers_per_week)]_vars

\* the builder has been called
gebouwd == pc = "bouw" /\ probe # GeenProbe

\* C26: for every pool, court budget and location the builder returns at most
\* court_budget groups, each of 4 distinct players of the pool, pairwise
\* disjoint, each scoring above 0 at the location, in descending order of
\* score.
C26_BouwerGeeftGeldigeGroepen ==
    gebouwd =>
        /\ Len(probe.groepen) <= probe.max_groepen
        /\ \A k \in DOMAIN probe.groepen :
              /\ Len(probe.groepen[k]) = 4
              /\ Cardinality(Range(probe.groepen[k])) = 4
              /\ Range(probe.groepen[k]) \subseteq Range(probe.lijst)
              /\ calculate_group_quality_score(probe.groepen[k], probe.locatie) > 0
        /\ \A k, l \in DOMAIN probe.groepen :
              k < l =>
                  /\ Range(probe.groepen[k]) \cap Range(probe.groepen[l]) = {}
                  /\ calculate_group_quality_score(probe.groepen[k], probe.locatie)
                         >= calculate_group_quality_score(probe.groepen[l], probe.locatie)

\* C26 witness: the builder returned as many groups as the budget of two
\* allows, and the first one is the women's group although the men's pass
\* built its group first.
C26_Getuige ==
    /\ gebouwd
    /\ probe.max_groepen = 2
    /\ Len(probe.groepen) = 2
    /\ probe.mannen # <<>>
    /\ \A p \in Range(probe.groepen[1]) : spelers[p].Geslacht = "V"

\* the window of a homogeneous pass after its first n groups: the lowest-level
\* candidates that are left, at most as many as the configured window size
venster(kandidaten, groepen, n) ==
    LET rest == zonder(sorteer_op_niveau(kandidaten), leden(SubSeq(groepen, 1, n)))
    IN SubSeq(rest, 1, Min2(config.optimalisatie_instellingen.max_kandidaten_per_homogene_groep,
                            Len(rest)))

\* the 4-combinations of a window, each in the order of the window
combinaties_van(v) ==
    {SelectSeq(v, LAMBDA p : p \in c) : c \in {d \in SUBSET Range(v) : Cardinality(d) = 4}}

\* a group is valid: its known levels lie within the maximum spread and it
\* scores above 0 at the location
geldige_groep(groep, locatie) ==
    /\ \A p, q \in Range(groep) :
          (spelers[p].Niveau # 0 /\ spelers[q].Niveau # 0) =>
              spelers[p].Niveau - spelers[q].Niveau <= opt_max_niveau_verschil * NiveauStappen
    /\ calculate_group_quality_score(groep, locatie) > 0

\* the groups of a pass are, one after the other, a best valid combination of
\* the window, and the pass stopped at its budget or without a valid combination
pass_neemt_beste(kandidaten, groepen, budget, locatie) ==
    /\ Len(groepen) <= budget
    /\ \A n \in DOMAIN groepen :
          /\ groepen[n] \in combinaties_van(venster(kandidaten, groepen, n - 1))
          /\ geldige_groep(groepen[n], locatie)
          /\ \A c \in combinaties_van(venster(kandidaten, groepen, n - 1)) :
                geldige_groep(c, locatie) =>
                    calculate_group_quality_score(c, locatie)
                        <= calculate_group_quality_score(groepen[n], locatie)
    /\ Len(groepen) < budget =>
          \A c \in combinaties_van(venster(kandidaten, groepen, Len(groepen))) :
              ~geldige_groep(c, locatie)

\* C27: in each homogeneous pass every extracted group is a highest-scoring
\* valid group among the 4-combinations of the W lowest-level remaining
\* candidates of that gender, its members are removed before the next
\* extraction, and the pass stops when no valid combination remains or its
\* budget is reached.
C27_HomogenePassNeemtBeste ==
    gebouwd =>
        /\ pass_neemt_beste(SelectSeq(probe.lijst, LAMBDA p : spelers[p].Geslacht = "M"),
                            probe.mannen, probe.max_groepen \div 2, probe.locatie)
        /\ pass_neemt_beste(SelectSeq(probe.lijst, LAMBDA p : spelers[p].Geslacht = "V"),
                            probe.vrouwen, probe.max_groepen - Len(probe.mannen), probe.locatie)

\* C27 witness: with a window of six the women's pass took two groups or more,
\* and the second one holds a woman whom the first window left out; some
\* combination of all the candidates is valid and scores above the first group.
C27_Getuige ==
    /\ gebouwd
    /\ config.optimalisatie_instellingen.max_kandidaten_per_homogene_groep = 6
    /\ Len(probe.vrouwen) >= 2
    /\ Range(probe.vrouwen[2])
           \ Range(venster(SelectSeq(probe.lijst, LAMBDA p : spelers[p].Geslacht = "V"),
                           probe.vrouwen, 0)) # {}
    /\ \E c \in combinaties_van(sorteer_op_niveau(probe.lijst)) :
          /\ geldige_groep(c, probe.locatie)
          /\ calculate_group_quality_score(c, probe.locatie)
                 > calculate_group_quality_score(probe.vrouwen[1], probe.locatie)

\* the historical members of legacy record r that are in match i of the plan
\* and carry the 'stays' flag
blijvers_in_match(i, r) ==
    {p \in Range(planning[i].spelers) \cap Range(legacy_groepen[r].Spelers) :
        p \in DOMAIN spelers /\ spelers[p].Blijft}

\* C28: every legacy-tagged match stands at the day, location and time of a
\* legacy record and holds at least min_legacy_blijvers members of that record
\* flagged 'stays'; a record with fewer flagged members gives no legacy match,
\* and a week holds at most one legacy match per record.
C28_LegacyOpEigenSlotMetBlijvers ==
    /\ \A i \in DOMAIN planning : planning[i].legacy =>
          \E r \in DOMAIN legacy_groepen :
             /\ planning[i].day = legacy_groepen[r].Dag
             /\ planning[i].location = legacy_groepen[r].Locatie
             /\ planning[i].time = legacy_groepen[r].Tijdslot
             /\ Cardinality(blijvers_in_match(i, r)) >= min_legacy_blijvers
    /\ \A r \in DOMAIN legacy_groepen :
          Cardinality({p \in Range(legacy_groepen[r].Spelers) \cap DOMAIN spelers :
                          spelers[p].Blijft}) < min_legacy_blijvers
             => \A i \in DOMAIN planning : ~planning[i].legacy
    /\ \A w \in 1..AantalWeken :
          Cardinality({i \in DOMAIN planning :
                          planning[i].legacy /\ planning[i].week = w})
             <= Len(legacy_groepen)

\* C29: a match tagged legacy_volledig holds four historical members of a
\* legacy record at its slot, all flagged 'stays', and carries the fixed
\* maximum score; a legacy match with a member from outside the record is
\* tagged legacy_gedeeltelijk and its score is the one of its number of
\* retained members of the record.
C29_VolledigAlleenMetVierOrigineleBlijvers ==
    \A i \in DOMAIN planning : planning[i].legacy =>
       \E r \in DOMAIN legacy_groepen :
          /\ planning[i].day = legacy_groepen[r].Dag
          /\ planning[i].location = legacy_groepen[r].Locatie
          /\ planning[i].time = legacy_groepen[r].Tijdslot
          /\ planning[i].type = "legacy_volledig" =>
                /\ Cardinality(blijvers_in_match(i, r)) = 4
                /\ planning[i].quality_score = volledige_legacy_score
          /\ Range(planning[i].spelers) \ Range(legacy_groepen[r].Spelers) # {} =>
                /\ planning[i].type = "legacy_gedeeltelijk"
                /\ planning[i].quality_score =
                      _bereken_legacy_score(
                          [aantal_blijvend |-> Cardinality(blijvers_in_match(i, r)),
                           groep |-> planning[i].spelers])

\* the age brackets of the members of the probed group whose age is known
probe_categorieen ==
    {leeftijdscategorie(spelers[probe.groep[i]].Leeftijd) :
        i \in {j \in DOMAIN probe.groep : spelers[probe.groep[j]].Leeftijd # -1}}

probe_bekende_leeftijden ==
    Cardinality({j \in DOMAIN probe.groep : spelers[probe.groep[j]].Leeftijd # -1})

\* C30: the age criterion gives zelfde_categorie when at least four ages are
\* known and all fall in one configured bracket, twee_aangrenzend when they
\* fall in exactly two adjacent brackets, and 0 in every other case.
C30_LeeftijdAlleenAangrenzend ==
    (pc = "score" /\ probe # GeenProbe) =>
        _bereken_leeftijd_score(probe.groep) =
            IF probe_bekende_leeftijden < 4 THEN 0
            ELSE IF probe_categorieen \in {{"jong"}, {"middel"}, {"senior"}}
                 THEN zelfde_categorie
            ELSE IF probe_categorieen \in {{"jong", "middel"}, {"middel", "senior"}}
                 THEN twee_aangrenzend
            ELSE 0

\* C31: the preference criterion of a group is the tier of its number of
\* mutual pairs (drie_plus_paren, twee_paren, een_paar, and neutrale_bonus for
\* none) plus enkelzijdig_punten for every one-sided wish inside the group,
\* capped at samen_met_max_punten.
C31_VoorkeurIsTrapPlusEnkelzijdig ==
    (pc = "score" /\ probe # GeenProbe) =>
        _bereken_samen_met_score(probe.groep) =
            Min2((IF Cardinality(wederzijdse_paren(probe.groep)) >= 3 THEN drie_plus_paren
                  ELSE IF Cardinality(wederzijdse_paren(probe.groep)) = 2 THEN twee_paren
                  ELSE IF Cardinality(wederzijdse_paren(probe.groep)) = 1 THEN een_paar
                  ELSE neutrale_bonus)
                 + enkelzijdig_punten * Cardinality(enkelzijdige_voorkeuren(probe.groep)),
                 samen_met_max_punten)

\* C32: a wish added to a member of a group for a name that no player carries
\* or for a player outside the group changes neither the score of the group
\* nor its preference criterion, and every mutual pair of a group consists of
\* two members of the group who each wish for the other.
C32_WensBuitenGroepTeltNiet ==
    [][/\ (pc = "score" /\ pc' = "wens") =>
            /\ probe'.score = probe.score
            /\ \A groep \in {probe.groep} :
                  _bereken_samen_met_score(groep)' = _bereken_samen_met_score(groep)
       /\ (pc = "score" /\ probe # GeenProbe) =>
            \A paar \in wederzijdse_paren(probe.groep) :
               \E a, b \in Range(probe.groep) :
                  /\ a # b /\ paar = {a, b}
                  /\ spelers[b].Naam \in spelers[a].SamenMet
                  /\ spelers[a].Naam \in spelers[b].SamenMet]_vars

\* a group with a mutual pair and a score above 0 was scored again after a
\* member got a wish that the group cannot satisfy
C32_Getuige ==
    /\ pc = "wens"
    /\ probe.score > 0
    /\ wederzijdse_paren(probe.groep) # {}
    /\ \E p \in Range(probe.groep) :
          spelers[p].SamenMet \ Range(probe.groep) # {}

\* C33: with at least one placeholder configured, no match carries the
\* sentinel GEEN_TRAINER_BESCHIKBAAR once the trainer assignment has gone
\* through the plan, however many matches share a (week, day, location, time).
C33_AltijdEenTrainer ==
    (trainers_toegewezen /\ Len(dummy_trainers) >= 1) =>
        \A i \in DOMAIN planning : planning[i].trainer # "GEEN_TRAINER_BESCHIKBAAR"

\* every match carries a trainer listed for exactly its day, location and
\* time, a placeholder, or the sentinel
trainer_uit_lijst_van_slot ==
    \A i \in DOMAIN planning :
        \/ planning[i].trainer = "GEEN_TRAINER_BESCHIKBAAR"
        \/ planning[i].trainer \in Range(dummy_trainers)
        \/ \E r \in DOMAIN trainers_beschikbaarheid :
              /\ trainers_beschikbaarheid[r].TrainerNaam = planning[i].trainer
              /\ trainers_beschikbaarheid[r].Dag = planning[i].day
              /\ trainers_beschikbaarheid[r].Locatie = planning[i].location
              /\ trainers_beschikbaarheid[r].Tijdslot = planning[i].time

\* C34: a step of the trainer assignment adds and removes no match, changes
\* no field of a match other than trainer and leaves the scheduled sets alone;
\* when it has gone through the plan every match carries a trainer listed for
\* exactly its slot, a placeholder, or the sentinel.
C34_TrainersAlleenTrainerVeld ==
    [][/\ (pc = "trainers") =>
            /\ Len(planning') = Len(planning)
            /\ \A i \in DOMAIN planning :
                  [planning'[i] EXCEPT !.trainer = ""] = [planning[i] EXCEPT !.trainer = ""]
            /\ UNCHANGED <<ingeplande_spelers_per_week, niet_ingeplande_spelers>>
       /\ trainers_toegewezen' => trainer_uit_lijst_van_slot']_vars

\* the trainer assignment has gone through a plan in which one match got a
\* real trainer and another match of the same slot a placeholder
C34_Getuige ==
    /\ trainers_toegewezen
    /\ \E i, j \in DOMAIN planning :
          /\ zelfde_slot(planning[i], planning[j])
          /\ planning[i].trainer \notin Range(dummy_trainers) \cup {"", "GEEN_TRAINER_BESCHIKBAAR"}
          /\ planning[j].trainer \in Range(dummy_trainers)

\* the sort key of plan_trainers_in
chronologisch(m) == <<m.week, m.day, m.time[1]>>

eerder_of_gelijk(a, b) ==
    \/ a[1] < b[1]
    \/ a[1] = b[1] /\ a[2] < b[2]
    \/ a[1] = b[1] /\ a[2] = b[2] /\ a[3] <= b[3]

\* the positions in the candidate list of the match handled next whose
\* trainer is not booked for its slot
vrije_kandidaten ==
    {k \in DOMAIN trainers_voor_slot(volgende_match.day, volgende_match.location,
                                      volgende_match.time) :
        trainer_sleutel(volgende_match,
                        trainers_voor_slot(volgende_match.day, volgende_match.location,
                                           volgende_match.time)[k]) \notin lus.bezet}

\* the trainer is booked for the hour before the match handled next
vorig_uur_geboekt(naam) ==
    <<volgende_match.week, volgende_match.day,
      <<volgende_match.time[1] - 1, volgende_match.time[1]>>,
      volgende_match.location, naam>> \in lus.bezet

\* C35: the trainer assignment handles the matches in the order of (week,
\* weekday, start hour); the trainer a match gets is, among the free
\* candidates of its kind (real or placeholder), one booked for the hour
\* before at the location when there is such a candidate, and the first in the
\* order of the list among those that remain tied.
C35_ChronologischEnContinuiteit ==
    [][(pc = "trainers" /\ lus.k <= Len(planning)) =>
         LET lijst == trainers_voor_slot(volgende_match.day, volgende_match.location,
                                         volgende_match.time)
             echt(k) == lijst[k] \notin Range(dummy_trainers)
         IN /\ \A a \in 1..(lus.k - 1) :
                  eerder_of_gelijk(chronologisch(planning[trainer_volgorde(planning)[a]]),
                                   chronologisch(volgende_match))
            /\ vrije_kandidaten # {} =>
                  \E k \in vrije_kandidaten :
                     /\ planning'[trainer_volgorde(planning)[lus.k]].trainer = lijst[k]
                     /\ \A l \in vrije_kandidaten : echt(l) = echt(k) =>
                           /\ vorig_uur_geboekt(lijst[l]) => vorig_uur_geboekt(lijst[k])
                           /\ (vorig_uur_geboekt(lijst[l]) = vorig_uur_geboekt(lijst[k])) => k <= l]_vars

\* a match of the second hour got the real trainer booked for the hour before
\* although another real trainer stands before that trainer in the list of
\* the slot and is not booked
C35_Getuige ==
    /\ pc = "trainers"
    /\ \E i, j \in DOMAIN planning :
          /\ planning[i].week = planning[j].week /\ planning[i].day = planning[j].day
          /\ planning[i].location = planning[j].location
          /\ planning[i].time[2] = planning[j].time[1]
          /\ planning[i].trainer = "Jan" /\ planning[j].trainer = "Jan"
          /\ trainer_sleutel(planning[j], "Jan") \in lus.bezet
          /\ trainer_sleutel(planning[j], "Piet") \notin lus.bezet
          /\ trainers_voor_slot(planning[j].day, planning[j].location, planning[j].time)[1] = "Piet"

\* C36: once a match carries a trainer, no step adds or removes a match or
\* changes the day, location, time, court or members of a match.
C36_PlanDefinitiefNaTrainers ==
    [][(\E i \in DOMAIN planning : planning[i].trainer # "") =>
          /\ Len(planning') = Len(planning)
          /\ \A i \in DOMAIN planning :
                /\ planning'[i].week = planning[i].week
                /\ planning'[i].day = planning[i].day
                /\ planning'[i].location = planning[i].location
                /\ planning'[i].time = planning[i].time
                /\ planning'[i].baan = planning[i].baan
                /\ planning'[i].spelers = planning[i].spelers]_vars

\* C37: once the trainer assignment has gone through the plan, no trainer,
\* real or placeholder, holds two matches of the same week, day and time,
\* whatever the locations of the two matches.
C37_TrainerNietOpTweeLocaties ==
    trainers_toegewezen =>
        \A i, j \in DOMAIN planning :
            (/\ i # j
             /\ planning[i].week = planning[j].week
             /\ planning[i].day = planning[j].day
             /\ planning[i].time = planning[j].time
             /\ planning[i].trainer = planning[j].trainer) =>
                planning[i].trainer = "GEEN_TRAINER_BESCHIKBAAR"

\* C38: every member of every match has an availability interval on the day
\* of the match that overlaps the time of the match, in every state of the
\* run.
C38_LedenBeschikbaarOpSlot ==
    \A i \in DOMAIN planning :
        \A p \in Range(planning[i].spelers) :
            \E t \in spelers[p].Beschikbaar[planning[i].day] :
                tijden_overlappen(planning[i].time, t)

\* C39: with locatie_strikt, every member of every match that is not a legacy
\* match prefers the location of the match, in every state of the run.
C39_LedenOpVoorkeurslocatie ==
    locatie_strikt =>
        \A i \in DOMAIN planning : ~planning[i].legacy =>
            \A p \in Range(planning[i].spelers) :
                spelers[p].LocatieVoorkeur = planning[i].location

====
